---- MODULE Spec2Model ----
(***************************************************************************)
(* A model of the resource-aggregation core of asanamcp: the paginating    *)
(* client (AsanaClient::get_all) and the recursive traversals of the       *)
(* server (fetch_portfolio_with_depth, expand_subtasks_flat).              *)
(*                                                                         *)
(* One invocation is a stack of frames, one frame per active async fn.     *)
(* Every action is the code of one frame between two await points: it      *)
(* issues at most one HTTP request, receives the answer of the remote      *)
(* service and runs the local code up to the next call or return.  The     *)
(* remote service (world) is chosen in Init and never changes; a request   *)
(* may also fail with any error kind.                                      *)
(***************************************************************************)
EXTENDS Integers, Sequences, FiniteSets, TLC

VARIABLES
    world,   \* the content of the remote service, fixed during an invocation
    call,    \* the invocation: the operation and its arguments
    stack,   \* the active frames, innermost last
    http,    \* the requests issued so far, each with the answer it received
    ret      \* None, or Some(result) of the frame that returned last

vars == <<world, call, stack, http, ret>>

-----------------------------------------------------------------------------
(* Option<T> and Result<T, Error> *)

None == <<>>

Some(x) == <<x>>

Ok(v) == [ok |-> TRUE, val |-> v]

Err(e) == [ok |-> FALSE, err |-> e]

\* The variants of Error a request can end in.  The field at (the number of
\* the failing request) stands for the message the error carries.
ErrKinds == {"NotFound", "Api", "Http", "Parse"}

-----------------------------------------------------------------------------
(* Bounds of the list endpoint of the pagination specification *)

MaxPages == 3

MaxPageLen == 2

ItemNames == {"a", "b"}

\* The sequences over S of length at most n.
SeqsUpTo(S, n) == UNION {[1..k -> S] : k \in 0..n}

RECURSIVE Flatten(_)
\* P1 \o ... \o Pn
Flatten(pgs) ==
    IF pgs = <<>> THEN <<>> ELSE Head(pgs) \o Flatten(Tail(pgs))

-----------------------------------------------------------------------------
(* The remote service *)

\* The value of the offset parameter of a query (the last one, if repeated).
OffsetParam(query) ==
    LET I == {i \in 1..Len(query) : query[i][1] = "offset"}
    IN  IF I = {} THEN None
        ELSE Some(query[CHOOSE i \in I : \A j \in I : j <= i][2])

\* The cursor the service hands out with page k: an opaque string.
Cursor(k) == ToString(k)

\* The answer of a list endpoint holding the pages pgs: {data, next_page}.
\* No offset selects the first page, the cursor of page k selects page k+1.
ListAnswer(pgs, query, n) ==
    LET off == OffsetParam(query)
        K   == IF off = None THEN {1}
               ELSE {k + 1 : k \in {j \in 1..Len(pgs) : Cursor(j) = off[1]}}
    IN  IF K = {} \/ \A k \in K : k > Len(pgs)
        THEN Err([kind |-> "Api", at |-> n])
        ELSE LET k == CHOOSE k \in K : TRUE
             IN  Ok([data |-> pgs[k],
                     next_page |-> IF k < Len(pgs) THEN Some([offset |-> Cursor(k)])
                                   ELSE None])

RECURSIVE Chunk(_, _)
\* A list as the service pages it: ps items a page, an empty list as one empty page.
Chunk(list, ps) ==
    IF Len(list) <= ps THEN <<list>>
    ELSE <<SubSeq(list, 1, ps)>> \o Chunk(SubSeq(list, ps + 1, Len(list)), ps)

\* A task as a list endpoint returns it: a Resource whose open fields hold
\* num_subtasks (None when the field is absent).
TaskResource(gid, hint) ==
    [gid |-> gid, resource_type |-> "task", num_subtasks |-> hint[gid]]

\* The value of a parameter of a query (the last one, if repeated).
QueryParam(query, name) ==
    LET I == {i \in 1..Len(query) : query[i][1] = name}
    IN  IF I = {} THEN None
        ELSE Some(query[CHOOSE i \in I : \A j \in I : j <= i][2])

\* The pages behind a list path; the favorites are those of the resource_type
\* the query asks for.
ListPages(w, path, query) ==
    CASE path.ep = "items" -> w.pages
      [] path.ep = "favorites" ->
            Chunk(w.favorites[QueryParam(query, "resource_type")[1]], w.ps)
      [] path.ep = "portfolio_items" -> Chunk(w.items[path.gid], w.ps)
      [] path.ep = "project_tasks" ->
            Chunk([i \in DOMAIN w.project_tasks[path.gid] |->
                      TaskResource(w.project_tasks[path.gid][i], w.hint)], w.ps)
      [] path.ep = "task_subtasks" ->
            Chunk([i \in DOMAIN w.subtasks[path.gid] |->
                      TaskResource(w.subtasks[path.gid][i], w.hint)], w.ps)
      [] path.ep = "task_dependencies" -> Chunk(w.dependencies[path.gid], w.ps)
      [] path.ep = "task_dependents" -> Chunk(w.dependents[path.gid], w.ps)
      [] path.ep = "task_stories" -> Chunk(w.stories[path.gid], w.ps)
      [] path.ep \in {"workspace_tags", "typeahead"} -> w.pages

\* A resource as the service returns it in {data: ..}.
Resource(gid, type) == [gid |-> gid, resource_type |-> type]

\* The answer of a single-object endpoint: the resource, or 404.
DetailAnswer(w, path, n) ==
    CASE path.ep = "portfolio" ->
            IF path.gid \in DOMAIN w.items THEN Ok(Resource(path.gid, "portfolio"))
            ELSE Err([kind |-> "NotFound", at |-> n])
      [] path.ep = "project" ->
            IF path.gid \in w.projects THEN Ok(Resource(path.gid, "project"))
            ELSE Err([kind |-> "NotFound", at |-> n])
      [] path.ep = "task" ->
            IF path.gid \in w.tasks THEN Ok(Resource(path.gid, "task"))
            ELSE Err([kind |-> "NotFound", at |-> n])

\* What a request may be answered with: the answer of the service, or a failure.
Failures(n) == {Err([kind |-> k, at |-> n]) : k \in ErrKinds}

\* The answer of a list endpoint whose last page hands out a cursor again: the
\* cursor that selects page back + 1 (back = None: the endpoint ends).
CyclicListAnswer(pgs, back, query, n) ==
    LET off == OffsetParam(query)
        K   == IF off = None THEN {1}
               ELSE {k + 1 : k \in {j \in 0..(Len(pgs) - 1) : Cursor(j) = off[1]}}
    IN  IF K = {} THEN Err([kind |-> "Api", at |-> n])
        ELSE LET k == CHOOSE k \in K : TRUE
             IN  Ok([data |-> pgs[k],
                     next_page |-> IF k < Len(pgs) THEN Some([offset |-> Cursor(k)])
                                   ELSE IF back = None THEN None
                                   ELSE Some([offset |-> Cursor(back[1])])])

ListOutcomes(w, path, query, n) ==
    {IF path.ep = "cyclic_items" THEN CyclicListAnswer(w.pages, w.back, query, n)
     ELSE ListAnswer(ListPages(w, path, query), query, n)} \cup Failures(n)

DetailOutcomes(w, path, n) == {DetailAnswer(w, path, n)} \cup Failures(n)

-----------------------------------------------------------------------------
(* Frames *)

Top == stack[Len(stack)]

Running(fn) == stack # <<>> /\ Top.fn = fn

Done == stack = <<>>

\* Replace the innermost frame.
SetTop(f) == [stack EXCEPT ![Len(stack)] = f]

\* Return r from the innermost frame to its caller.
Pop == SubSeq(stack, 1, Len(stack) - 1)

\* A request in flight: the future of send().await, above the frame it suspends.
SendFrame(request) == [fn |-> "send", path |-> request.path, query |-> request.query]

\* The frame suspended by the request in flight.
Caller == stack[Len(stack) - 1]

\* The request in flight was issued by fn, which resumes with its response.
Awaiting(fn) == Len(stack) >= 2 /\ Top.fn = "send" /\ Caller.fn = fn

\* The response arrived: the suspended frame goes on as f.
SetCaller(f) == [SubSeq(stack, 1, Len(stack) - 1) EXCEPT ![Len(stack) - 1] = f]

\* The response arrived and the suspended frame returns to its caller.
PopCaller == SubSeq(stack, 1, Len(stack) - 2)

IssueDetached(request) == <<SendFrame(request)>> \o stack

\* self.http.get(&url).query(query).send().await: the request goes out and
\* the frame that issued it is suspended until the response is there
Issue(request) == Append(stack, SendFrame(request))

\* The nesting level of the innermost traversal frame (0 outside a traversal).
Level ==
    LET F == {i \in 1..Len(stack) :
                 stack[i].fn \in {"fetch_portfolio", "expand_subtasks_flat"}}
    IN  IF F = {} THEN 0
        ELSE stack[CHOOSE i \in F : \A j \in F : j <= i].current_depth

\* One entry of http: the request, the level it was issued at, and its answer.
Exchange(path, query, r) ==
    [path |-> path, query |-> query, level |-> Level, resp |-> r]

-----------------------------------------------------------------------------
(* AsanaClient::get_all *)

GetAllFrame(path, query) ==
    [fn |-> "get_all", path |-> path, query |-> query,
     offset |-> None, all_items |-> <<>>]

QueryOffsetOnly(query, offset) ==
    IF offset # None THEN <<<<"offset", offset[1]>>>> ELSE query

\* let query_with_offset = match &offset { Some(off) => query + ("offset", off), None => query }
QueryWithOffset(query, offset) ==
    IF offset # None THEN Append(query, <<"offset", offset[1]>>) ELSE query

ExtendItemsPrepend(all_items, data) == data \o all_items

\* all_items.extend(wrapper.data)
ExtendItems(all_items, data) == all_items \o data

NextOffsetNone(wrapper) == None

\* offset = wrapper.next_page.map(|next| next.offset)
NextOffset(wrapper) ==
    IF wrapper.next_page = None THEN None ELSE Some(wrapper.next_page[1].offset)

ListFailedPartial(all_items, r) == Ok(all_items)

ListFailedAsEnd(all_items, r) == Ok(all_items)

\* self.get_list(path, &query_with_offset).await?  on a failed request
ListFailed(all_items, r) == r

\* The requests the model follows get_all for on an endpoint that does not
\* end: the loop of get_all has no bound of its own.
MaxRequests == 6

\* One iteration of the loop: one get_list request, the page appended, then
\* either the next iteration or the return of everything collected.
GetAllStep ==
    /\ Awaiting("get_all")
    /\ ret = None
    /\ LET f == Caller
           q == QueryWithOffset(f.query, f.offset)
       IN  \E r \in ListOutcomes(world, f.path, q, Len(http) + 1) :
             /\ http' = Append(http, Exchange(f.path, q, r))
             /\ IF ~r.ok
                THEN /\ stack' = PopCaller
                     /\ ret' = Some(ListFailed(f.all_items, r))
                ELSE LET items == ExtendItems(f.all_items, r.val.data)
                         off   == NextOffset(r.val)
                     IN  IF off = None
                         THEN /\ stack' = PopCaller
                              /\ ret' = Some(Ok(items))
                         ELSE /\ stack' = SetCaller([f EXCEPT !.offset = off,
                                                          !.all_items = items])
                              /\ ret' = None
    /\ UNCHANGED <<world, call>>

\* One iteration of the loop: the get_list request of the iteration goes out.
GetAllSend ==
    /\ Running("get_all")
    /\ ret = None
    /\ Top.path.ep = "cyclic_items" => Len(http) < MaxRequests
    /\ stack' = Issue([path |-> Top.path, query |-> QueryWithOffset(Top.query, Top.offset)])
    /\ UNCHANGED <<world, call, http, ret>>

-----------------------------------------------------------------------------
(* Pagination: one call of get_all against a list endpoint P1..Pn *)

Queries == {<<>>, << <<"workspace", "123">> >>}

ItemsPath == [ep |-> "items", gid |-> ""]

InitPage ==
    /\ world \in {[pages |-> p] : p \in SeqsUpTo(SeqsUpTo(ItemNames, MaxPageLen), MaxPages) \ {<<>>}}
    /\ call \in {[op |-> "get_all", path |-> ItemsPath, query |-> q] : q \in Queries}
    /\ stack = <<GetAllFrame(call.path, call.query)>>
    /\ http = <<>>
    /\ ret = None

NextPage ==
    \/ GetAllSend
    \/ GetAllStep

SpecPage == InitPage /\ [][NextPage]_vars

-----------------------------------------------------------------------------
(* Requests of the traversals *)

PROJECT_FIELDS == "gid,name,color,archived,public,owner,owner.name,team,team.name,workspace,workspace.name,current_status_update,current_status_update.gid,current_status_update.status_type,current_status_update.title,current_status_update.text,notes,created_at,modified_at,due_date,due_on,start_on,permalink_url,icon"

PORTFOLIO_FIELDS == "gid,name,color,owner,owner.name,workspace,current_status_update,current_status_update.gid,current_status_update.status_type,current_status_update.title,current_status_update.text,created_at,created_by,permalink_url,public"

PORTFOLIO_ITEMS_FIELDS == "gid,resource_type,name"

RECURSIVE_TASK_FIELDS == "gid,name,resource_type,completed,completed_at,assignee,assignee.name,due_on,due_at,start_on,notes,created_at,modified_at,permalink_url,parent,parent.name,num_likes,num_subtasks,liked,projects,projects.name,workspace,tags,memberships,memberships.project,memberships.project.name,memberships.section,memberships.section.name"

\* &[("opt_fields", fields)]
OptFields(fields) == << <<"opt_fields", fields>> >>

\* format!("/portfolios/{}", gid)
PortfolioPath(gid) == [ep |-> "portfolio", gid |-> gid]

\* format!("/portfolios/{}/items", gid)
PortfolioItemsPath(gid) == [ep |-> "portfolio_items", gid |-> gid]

\* format!("/projects/{}", gid)
ProjectPath(gid) == [ep |-> "project", gid |-> gid]

\* format!("/projects/{}/tasks", project_gid)
ProjectTasksPath(gid) == [ep |-> "project_tasks", gid |-> gid]

\* format!("/tasks/{}/subtasks", task.gid)
SubtasksPath(gid) == [ep |-> "task_subtasks", gid |-> gid]

-----------------------------------------------------------------------------
(* helpers::depth_to_option, AsanaServer::fetch_portfolio_with_depth *)

\* Option::unwrap_or
UnwrapOr(opt, default) == IF opt = None THEN default ELSE opt[1]

DepthToOptionClamped(depth) == IF depth < 0 THEN Some(0) ELSE Some(depth)

\* depth_to_option: negative is unlimited (None), otherwise Some(depth as usize)
depth_to_option(depth) == IF depth < 0 THEN None ELSE Some(depth)

\* The deepest level the model follows an expansion to: on a graph with a cycle
\* an unlimited expansion has no deepest level of its own.
MaxNesting == 4

ShouldFetchItemsAlways(max_depth, current_depth) == TRUE

ShouldFetchItemsInclusive(max_depth, current_depth) ==
    IF max_depth = None THEN TRUE ELSE current_depth <= max_depth[1]

\* let should_fetch_items = match max_depth { None => true, Some(max) => current_depth < max }
ShouldFetchItems(max_depth, current_depth) ==
    IF max_depth = None THEN TRUE ELSE current_depth < max_depth[1]

NestedDepthSame(current_depth) == current_depth

\* fetch_portfolio_with_depth(&item_ref.gid, max_depth, current_depth + 1)
NestedDepth(current_depth) == current_depth + 1

ItemArmAsProject(resource_type) ==
    CASE resource_type = "portfolio" -> "portfolio"
      [] OTHER -> "project"

\* match item_ref.resource_type.as_str() { "project" => .., "portfolio" => .., _ => continue }
ItemArm(resource_type) ==
    CASE resource_type = "project" -> "project"
      [] resource_type = "portfolio" -> "portfolio"
      [] OTHER -> "continue"

TryOrDefault(r) == IF r.ok THEN r ELSE Ok(Resource("", ""))

\* expr.await? : an Err returns from the fn, an Ok is unwrapped
Try(r) == r

\* PortfolioWithItems { portfolio, items }
PortfolioWithItems(portfolio, items) == [portfolio |-> portfolio, items |-> items]

\* PortfolioItemExpanded::Project(Box::new(project))
ProjectChild(project) == [kind |-> "Project", val |-> project]

\* PortfolioItemExpanded::Portfolio(Box::new(nested))
PortfolioChild(nested) == [kind |-> "Portfolio", val |-> nested]

PortfolioFrame(gid, max_depth, current_depth) ==
    [fn |-> "fetch_portfolio", gid |-> gid, max_depth |-> max_depth,
     current_depth |-> current_depth, pc |-> "start",
     portfolio |-> None, item_refs |-> <<>>, items |-> <<>>]

\* The portfolio detail request and the depth gate: return the bare node, or
\* call get_all for the item references.
FetchPortfolioDetail ==
    /\ Awaiting("fetch_portfolio")
    /\ Caller.pc = "start"
    /\ LET f == Caller
           path == PortfolioPath(f.gid)
       IN  \E a \in DetailOutcomes(world, path, Len(http) + 1) :
             LET r == Try(a) IN
             /\ http' = Append(http, Exchange(path, OptFields(PORTFOLIO_FIELDS), a))
             /\ IF ~r.ok
                THEN /\ stack' = PopCaller
                     /\ ret' = Some(r)
                ELSE IF ~ShouldFetchItems(f.max_depth, f.current_depth)
                THEN /\ stack' = PopCaller
                     /\ ret' = Some(Ok(PortfolioWithItems(r.val, <<>>)))
                ELSE /\ stack' = Append(SetCaller([f EXCEPT !.pc = "items",
                                                         !.portfolio = Some(r.val)]),
                                        GetAllFrame(PortfolioItemsPath(f.gid),
                                                    OptFields(PORTFOLIO_ITEMS_FIELDS)))
                     /\ ret' = None
    /\ UNCHANGED <<world, call>>

\* The portfolio detail request goes out.
FetchPortfolioDetailSend ==
    /\ Running("fetch_portfolio")
    /\ Top.pc = "start"
    /\ stack' = Issue([path |-> PortfolioPath(Top.gid), query |-> OptFields(PORTFOLIO_FIELDS)])
    /\ UNCHANGED <<world, call, http, ret>>

\* get_all returned: let item_refs = ..await?; let mut items = Vec::new()
FetchPortfolioItems ==
    /\ Running("fetch_portfolio")
    /\ Top.pc = "items"
    /\ ret # None
    /\ LET f == Top
           r == Try(ret[1])
       IN  IF ~r.ok
           THEN /\ stack' = Pop
                /\ ret' = Some(r)
           ELSE /\ stack' = SetTop([f EXCEPT !.pc = "loop", !.item_refs = r.val,
                                             !.items = <<>>])
                /\ ret' = None
    /\ UNCHANGED <<world, call, http>>

\* for item_ref in item_refs: the "project" arm, one project detail request
FetchPortfolioProject ==
    /\ Awaiting("fetch_portfolio")
    /\ Caller.pc = "loop"
    /\ Caller.item_refs # <<>>
    /\ ItemArm(Head(Caller.item_refs).resource_type) = "project"
    /\ LET f == Caller
           path == ProjectPath(Head(f.item_refs).gid)
       IN  \E a \in DetailOutcomes(world, path, Len(http) + 1) :
             LET r == Try(a) IN
             /\ http' = Append(http, Exchange(path, OptFields(PROJECT_FIELDS), a))
             /\ IF ~r.ok
                THEN /\ stack' = PopCaller
                     /\ ret' = Some(r)
                ELSE /\ stack' = SetCaller([f EXCEPT !.item_refs = Tail(f.item_refs),
                                                  !.items = Append(f.items, ProjectChild(r.val))])
                     /\ ret' = None
    /\ UNCHANGED <<world, call>>

\* for item_ref in item_refs: the "project" arm, the project detail request goes out
FetchPortfolioProjectSend ==
    /\ Running("fetch_portfolio")
    /\ Top.pc = "loop"
    /\ Top.item_refs # <<>>
    /\ ItemArm(Head(Top.item_refs).resource_type) = "project"
    /\ stack' = Issue([path |-> ProjectPath(Head(Top.item_refs).gid),
                       query |-> OptFields(PROJECT_FIELDS)])
    /\ UNCHANGED <<world, call, http, ret>>

\* for item_ref in item_refs: the "portfolio" arm, the recursive call
FetchPortfolioRecurse ==
    /\ Running("fetch_portfolio")
    /\ Top.pc = "loop"
    /\ Top.item_refs # <<>>
    /\ ItemArm(Head(Top.item_refs).resource_type) = "portfolio"
    /\ Top.current_depth < MaxNesting
    /\ LET f == Top
       IN  stack' = Append(SetTop([f EXCEPT !.pc = "nested"]),
                           PortfolioFrame(Head(f.item_refs).gid, f.max_depth,
                                          NestedDepth(f.current_depth)))
    /\ UNCHANGED <<world, call, http, ret>>

\* the recursive call returned: let nested = ..await?; items.push(Portfolio(nested))
FetchPortfolioNested ==
    /\ Running("fetch_portfolio")
    /\ Top.pc = "nested"
    /\ ret # None
    /\ LET f == Top
           r == Try(ret[1])
       IN  IF ~r.ok
           THEN /\ stack' = Pop
                /\ ret' = Some(r)
           ELSE /\ stack' = SetTop([f EXCEPT !.pc = "loop",
                                             !.item_refs = Tail(f.item_refs),
                                             !.items = Append(f.items, PortfolioChild(r.val))])
                /\ ret' = None
    /\ UNCHANGED <<world, call, http>>

\* for item_ref in item_refs: any other resource_type, continue
FetchPortfolioSkip ==
    /\ Running("fetch_portfolio")
    /\ Top.pc = "loop"
    /\ Top.item_refs # <<>>
    /\ ItemArm(Head(Top.item_refs).resource_type) = "continue"
    /\ stack' = SetTop([Top EXCEPT !.item_refs = Tail(Top.item_refs)])
    /\ UNCHANGED <<world, call, http, ret>>

\* the loop is over: Ok(PortfolioWithItems { portfolio, items })
FetchPortfolioReturn ==
    /\ Running("fetch_portfolio")
    /\ Top.pc = "loop"
    /\ Top.item_refs = <<>>
    /\ stack' = Pop
    /\ ret' = Some(Ok(PortfolioWithItems(Top.portfolio[1], Top.items)))
    /\ UNCHANGED <<world, call, http>>

-----------------------------------------------------------------------------
(* Portfolio expansion: asana_get(portfolio) on an acyclic portfolio graph *)

\* The total number of item references in the graph.
MaxRefs == 3

\* The largest depth argument.
MaxDepth == 2

Portfolios == <<"P", "Q", "R">>

Projects == {"A", "B"}

\* An item reference as /portfolios/{gid}/items lists it.
PortfolioItem(gid) ==
    [gid |-> gid,
     resource_type |-> IF gid \in Projects THEN "project"
                       ELSE IF gid \in {Portfolios[i] : i \in 1..Len(Portfolios)}
                       THEN "portfolio" ELSE "task"]

\* What portfolio number i may list: the projects, a task, and (the graph is
\* acyclic) the portfolios after it.
Listable(i) == Projects \cup {"X"} \cup {Portfolios[j] : j \in (i + 1)..Len(Portfolios)}

\* The sequences over S without repetition, of length at most n.
DistinctSeqs(S, n) ==
    {q \in SeqsUpTo(S, n) : \A i, j \in 1..Len(q) : i # j => q[i] # q[j]}

\* The item lists portfolio number i may have, of at most n references.
ItemLists(i, n) ==
    {[k \in DOMAIN q |-> PortfolioItem(q[k])] : q \in DistinctSeqs(Listable(i), n)}

\* The acyclic graphs of at most MaxRefs references: P lists first, then Q, then R.
Graphs ==
    UNION {UNION {{[P |-> p, Q |-> q, R |-> r] :
                      r \in ItemLists(3, MaxRefs - Len(p) - Len(q))} :
                  q \in ItemLists(2, MaxRefs - Len(p))} :
           p \in ItemLists(1, MaxRefs)}

\* The depth argument of asana_get: absent, or -1 (unlimited) .. MaxDepth.
Depths == {None} \cup {Some(d) : d \in (-1)..MaxDepth}

\* asana_get, ResourceType::Portfolio: depth_to_option(p.depth.unwrap_or(0)),
\* then get_portfolio_recursive(gid, depth) = fetch_portfolio_with_depth(gid, depth, 0)
InitPortfolio ==
    /\ world \in {[items |-> g, projects |-> Projects, ps |-> ps] :
                      g \in Graphs, ps \in {1, MaxRefs}}
    /\ call \in {[op |-> "portfolio", gid |-> Portfolios[1], depth |-> d] : d \in Depths}
    /\ stack = <<PortfolioFrame(call.gid, depth_to_option(UnwrapOr(call.depth, 0)), 0)>>
    /\ http = <<>>
    /\ ret = None

NextPortfolio ==
    \/ GetAllSend
    \/ GetAllStep
    \/ FetchPortfolioDetailSend
    \/ FetchPortfolioDetail
    \/ FetchPortfolioItems
    \/ FetchPortfolioProjectSend
    \/ FetchPortfolioProject
    \/ FetchPortfolioRecurse
    \/ FetchPortfolioNested
    \/ FetchPortfolioSkip
    \/ FetchPortfolioReturn

SpecPortfolio == InitPortfolio /\ [][NextPortfolio]_vars

\* The runtime polls the future of the invocation until it completes, and the
\* service answers every request.
SpecPortfolioFair == SpecPortfolio /\ WF_vars(NextPortfolio)

-----------------------------------------------------------------------------
(* AsanaServer::get_tasks_from_project, AsanaServer::expand_subtasks_flat *)

\* let max_depth = match subtask_depth { Some(d) if d < 0 => None, Some(d) => Some(d as usize), None => None }
SubtaskMaxDepth(subtask_depth) ==
    IF subtask_depth = None THEN None
    ELSE IF subtask_depth[1] < 0 THEN None
    ELSE Some(subtask_depth[1])

ShouldFetchSubtasksInclusive(max_depth, current_depth) ==
    IF max_depth = None THEN TRUE ELSE current_depth <= max_depth[1]

\* let should_fetch_subtasks = match max_depth { None => true, Some(max) => current_depth < max }
ShouldFetchSubtasks(max_depth, current_depth) ==
    IF max_depth = None THEN TRUE ELSE current_depth < max_depth[1]

\* task.fields.get("num_subtasks").and_then(|v| v.as_u64()).unwrap_or(0)
NumSubtasks(task) == UnwrapOr(task.num_subtasks, 0)

\* all_tasks.push(task.clone())
PushTask(all_tasks, task) == Append(all_tasks, task)

ExtendTasksFront(all_tasks, expanded) == expanded \o all_tasks

\* all_tasks.extend(expanded)
ExtendTasks(all_tasks, expanded) == all_tasks \o expanded

TasksFromProjectFrame(project_gid, subtask_depth) ==
    [fn |-> "get_tasks_from_project", project_gid |-> project_gid,
     subtask_depth |-> subtask_depth, pc |-> "start"]

ExpandFrame(tasks, subtask_depth, current_depth) ==
    [fn |-> "expand_subtasks_flat", tasks |-> tasks, subtask_depth |-> subtask_depth,
     current_depth |-> current_depth, all_tasks |-> <<>>, pc |-> "loop"]

\* get_tasks_from_project: the call of get_all for /projects/{gid}/tasks
TasksFromProjectList ==
    /\ Running("get_tasks_from_project")
    /\ Top.pc = "start"
    /\ stack' = Append(SetTop([Top EXCEPT !.pc = "tasks"]),
                       GetAllFrame(ProjectTasksPath(Top.project_gid),
                                   OptFields(RECURSIVE_TASK_FIELDS)))
    /\ UNCHANGED <<world, call, http, ret>>

\* get_all returned: let tasks = ..await?; self.expand_subtasks_flat(tasks, subtask_depth, 0)
TasksFromProjectExpand ==
    /\ Running("get_tasks_from_project")
    /\ Top.pc = "tasks"
    /\ ret # None
    /\ LET f == Top
           r == Try(ret[1])
       IN  IF ~r.ok
           THEN /\ stack' = Pop
                /\ ret' = Some(r)
           ELSE /\ stack' = Append(SetTop([f EXCEPT !.pc = "expand"]),
                                   ExpandFrame(r.val, f.subtask_depth, 0))
                /\ ret' = None
    /\ UNCHANGED <<world, call, http>>

\* expand_subtasks_flat(..).await is the value of get_tasks_from_project
TasksFromProjectReturn ==
    /\ Running("get_tasks_from_project")
    /\ Top.pc = "expand"
    /\ ret # None
    /\ stack' = Pop
    /\ UNCHANGED <<world, call, http, ret>>

\* for task in tasks: push the task; no subtasks are to be fetched for it
ExpandSubtasksPush ==
    /\ Running("expand_subtasks_flat")
    /\ Top.pc = "loop"
    /\ Top.tasks # <<>>
    /\ LET f == Top
           task == Head(f.tasks)
       IN  /\ ~(/\ ShouldFetchSubtasks(SubtaskMaxDepth(f.subtask_depth), f.current_depth)
                /\ NumSubtasks(task) > 0)
           /\ stack' = SetTop([f EXCEPT !.tasks = Tail(f.tasks),
                                        !.all_tasks = PushTask(f.all_tasks, task)])
    /\ UNCHANGED <<world, call, http, ret>>

\* for task in tasks: push the task, then call get_all for /tasks/{gid}/subtasks
ExpandSubtasksFetch ==
    /\ Running("expand_subtasks_flat")
    /\ Top.pc = "loop"
    /\ Top.tasks # <<>>
    /\ LET f == Top
           task == Head(f.tasks)
       IN  /\ ShouldFetchSubtasks(SubtaskMaxDepth(f.subtask_depth), f.current_depth)
           /\ NumSubtasks(task) > 0
           /\ stack' = Append(SetTop([f EXCEPT !.pc = "subtasks",
                                               !.all_tasks = PushTask(f.all_tasks, task)]),
                              GetAllFrame(SubtasksPath(task.gid),
                                          OptFields(RECURSIVE_TASK_FIELDS)))
    /\ UNCHANGED <<world, call, http, ret>>

\* get_all returned: let subtasks = ..await?; the recursive call one level deeper
ExpandSubtasksRecurse ==
    /\ Running("expand_subtasks_flat")
    /\ Top.pc = "subtasks"
    /\ ret # None
    /\ LET f == Top
           r == Try(ret[1])
       IN  IF ~r.ok
           THEN /\ stack' = Pop
                /\ ret' = Some(r)
           ELSE /\ stack' = Append(SetTop([f EXCEPT !.pc = "nested"]),
                                   ExpandFrame(r.val, f.subtask_depth, f.current_depth + 1))
                /\ ret' = None
    /\ UNCHANGED <<world, call, http>>

\* the recursive call returned: let expanded = ..await?; all_tasks.extend(expanded)
ExpandSubtasksNested ==
    /\ Running("expand_subtasks_flat")
    /\ Top.pc = "nested"
    /\ ret # None
    /\ LET f == Top
           r == Try(ret[1])
       IN  IF ~r.ok
           THEN /\ stack' = Pop
                /\ ret' = Some(r)
           ELSE /\ stack' = SetTop([f EXCEPT !.pc = "loop", !.tasks = Tail(f.tasks),
                                             !.all_tasks = ExtendTasks(f.all_tasks, r.val)])
                /\ ret' = None
    /\ UNCHANGED <<world, call, http>>

\* the loop is over: Ok(all_tasks)
ExpandSubtasksReturn ==
    /\ Running("expand_subtasks_flat")
    /\ Top.pc = "loop"
    /\ Top.tasks = <<>>
    /\ stack' = Pop
    /\ ret' = Some(Ok(Top.all_tasks))
    /\ UNCHANGED <<world, call, http>>

-----------------------------------------------------------------------------
(* Task expansion: get_tasks_from_project on a project holding a task forest *)

\* The number of tasks of the project, subtasks included.
NumTasks == 3

TaskNames == <<"t1", "t2", "t3", "t4", "t5", "t6">>

\* The values of the num_subtasks field: absent, zero, nonzero.
Hints == {None, Some(0), Some(2)}

\* The forests over tasks 1..n: the parent of a task is 0 (the project) or an
\* earlier task.
Forests(n) == {par \in [1..n -> 0..n] : \A i \in 1..n : par[i] < i}

\* The tasks whose parent is p, as a listing: ascending or descending.
Listing(par, p, order) ==
    LET n   == Len(par)
        asc == SelectSeq([i \in 1..n |-> i], LAMBDA i : par[i] = p)
    IN  [k \in 1..Len(asc) |->
            TaskNames[IF order = "asc" THEN asc[k] ELSE asc[Len(asc) + 1 - k]]]

TaskWorlds ==
    {[projects |-> {"A"},
      project_tasks |-> [g \in {"A"} |-> Listing(par, 0, order)],
      subtasks |-> [t \in {TaskNames[i] : i \in 1..Len(par)} |->
                       Listing(par, CHOOSE i \in 1..Len(par) : TaskNames[i] = t, order)],
      hint |-> [t \in {TaskNames[i] : i \in 1..Len(par)} |-> h[CHOOSE i \in 1..Len(par) : TaskNames[i] = t]],
      ps |-> ps] :
        par \in UNION {Forests(n) : n \in 0..NumTasks},
        h \in [1..NumTasks -> Hints],
        order \in {"asc", "desc"},
        ps \in {1, NumTasks}}

\* get_tasks_from_project(project_gid, subtask_depth)
InitTasks ==
    /\ world \in TaskWorlds
    /\ call \in {[op |-> "project_tasks", gid |-> "A", subtask_depth |-> d] : d \in Depths}
    /\ stack = <<TasksFromProjectFrame(call.gid, call.subtask_depth)>>
    /\ http = <<>>
    /\ ret = None

NextTasks ==
    \/ GetAllSend
    \/ GetAllStep
    \/ TasksFromProjectList
    \/ TasksFromProjectExpand
    \/ TasksFromProjectReturn
    \/ ExpandSubtasksPush
    \/ ExpandSubtasksFetch
    \/ ExpandSubtasksRecurse
    \/ ExpandSubtasksNested
    \/ ExpandSubtasksReturn

SpecTasks == InitTasks /\ [][NextTasks]_vars

-----------------------------------------------------------------------------
(* helpers::require_gid, helpers::error_to_mcp, helpers::json_response *)

\* The message an Error carries: the text the service (or the transport) gave
\* for the failing request.
Message(e) == "message of request " \o ToString(e.at)

\* validation_error(message): McpError { code: INVALID_PARAMS, message }
validation_error(message) == [code |-> "INVALID_PARAMS", message |-> message]

\* match gid.as_ref().filter(|s| !s.is_empty()) { Some(g) => Ok(g), None => Err(validation_error(..)) }
require_gid(gid, resource_type) ==
    IF gid # None /\ gid[1] # ""
    THEN Ok(gid[1])
    ELSE Err(validation_error("gid is required for " \o resource_type))

ErrorToMcpInternal(context, error) ==
    [code |-> "INTERNAL_ERROR", message |-> context \o ": " \o Message(error)]

\* error_to_mcp(context, error): the code and the message of every variant
error_to_mcp(context, error) ==
    CASE error.kind = "NotFound" ->
            [code |-> "INVALID_PARAMS", message |-> context \o ": " \o Message(error)]
      [] error.kind = "MissingToken" ->
            [code |-> "INVALID_PARAMS",
             message |-> context \o ": ASANA_TOKEN environment variable not set"]
      [] error.kind = "InvalidToken" ->
            [code |-> "INVALID_PARAMS", message |-> context \o ": invalid token format"]
      [] error.kind = "Api" ->
            [code |-> "INTERNAL_ERROR", message |-> context \o ": " \o Message(error)]
      [] error.kind = "Http" ->
            [code |-> "INTERNAL_ERROR",
             message |-> context \o ": HTTP error - " \o Message(error)]
      [] error.kind = "Parse" ->
            [code |-> "INTERNAL_ERROR",
             message |-> context \o ": failed to parse response - " \o Message(error)]

\* json_response(value): Ok(CallToolResult::success(vec![Content::text(json)]))
json_response(value) == Ok([content |-> value])

-----------------------------------------------------------------------------
(* AsanaServer::asana_get (ProjectTasks), get_tasks_recursive,             *)
(* get_tasks_from_portfolio, collect_project_gids_from_portfolio           *)

AsanaGetFrame(p) == [fn |-> "asana_get", p |-> p, pc |-> "start"]

ToolSubtaskDepthAsGiven(subtask_depth) == subtask_depth

\* p.subtask_depth.map(|d| if d < 0 { None } else { Some(d) }).unwrap_or(Some(0))
ToolSubtaskDepth(subtask_depth) ==
    IF subtask_depth = None THEN Some(0)
    ELSE IF subtask_depth[1] < 0 THEN None
    ELSE Some(subtask_depth[1])

\* Some(p.depth.unwrap_or(0))
ToolPortfolioDepth(depth) == Some(UnwrapOr(depth, 0))

TasksRecursiveFrame(gid, subtask_depth, portfolio_depth) ==
    [fn |-> "get_tasks_recursive", gid |-> gid, subtask_depth |-> subtask_depth,
     portfolio_depth |-> UnwrapOr(portfolio_depth, 0), pc |-> "start"]

TasksFromPortfolioFrame(portfolio_gid, subtask_depth, portfolio_depth) ==
    [fn |-> "get_tasks_from_portfolio", portfolio_gid |-> portfolio_gid,
     subtask_depth |-> subtask_depth, portfolio_depth |-> portfolio_depth,
     pc |-> "start", project_gids |-> <<>>, all_tasks |-> <<>>]

ProbeArmNoFallback(r) == IF r.ok THEN "project" ELSE "error"

\* match probe { Ok(_) => project path, Err(Error::NotFound(_)) => portfolio path, Err(e) => Err(e) }
ProbeArm(r) ==
    IF r.ok THEN "project"
    ELSE IF r.err.kind = "NotFound" THEN "portfolio"
    ELSE "error"

PortfolioDepthZeroUnlimited(portfolio_depth) ==
    IF portfolio_depth <= 0 THEN None ELSE Some(portfolio_depth)

\* let depth = if portfolio_depth < 0 { None } else { Some(portfolio_depth as usize) }
PortfolioDepth(portfolio_depth) ==
    IF portfolio_depth < 0 THEN None ELSE Some(portfolio_depth)

RECURSIVE CollectProjectGidsReversed(_)
CollectProjectGidsReversed(portfolio) ==
    LET gids[i \in 0..Len(portfolio.items)] ==
            IF i = 0 THEN <<>>
            ELSE IF portfolio.items[i].kind = "Project"
            THEN <<portfolio.items[i].val.gid>> \o gids[i - 1]
            ELSE CollectProjectGidsReversed(portfolio.items[i].val) \o gids[i - 1]
    IN  gids[Len(portfolio.items)]

RECURSIVE collect_project_gids_from_portfolio(_)
\* for item in &portfolio.items: a Project pushes its gid, a Portfolio extends
\* gids by the gids collected from it
collect_project_gids_from_portfolio(portfolio) ==
    LET gids[i \in 0..Len(portfolio.items)] ==
            IF i = 0 THEN <<>>
            ELSE IF portfolio.items[i].kind = "Project"
            THEN Append(gids[i - 1], portfolio.items[i].val.gid)
            ELSE gids[i - 1] \o collect_project_gids_from_portfolio(portfolio.items[i].val)
    IN  gids[Len(portfolio.items)]

ExpandedOrEmpty(r) ==
    IF ~r.ok /\ r.err.kind = "NotFound"
    THEN Ok(PortfolioWithItems(Resource("", "portfolio"), <<>>))
    ELSE r

\* let portfolio = self.get_portfolio_recursive(portfolio_gid, depth).await?
ExpandedPortfolio(r) == r

ProjectTasksArmTolerant(r) == IF r.ok THEN "extend" ELSE "continue"

\* match tasks { Ok(tasks) => extend, Err(Error::NotFound(_)) => continue, Err(e) => return Err(e) }
ProjectTasksArm(r) ==
    IF r.ok THEN "extend"
    ELSE IF r.err.kind = "NotFound" THEN "continue"
    ELSE "return"

\* asana_get, ResourceType::ProjectTasks: the gid is required, the depths are
\* converted, get_tasks_recursive is called
AsanaGetProjectTasks ==
    /\ Running("asana_get")
    /\ Top.p.resource_type = "project_tasks"
    /\ Top.pc = "start"
    /\ LET f == Top
           gid == require_gid(f.p.gid, "project_tasks")
       IN  IF ~gid.ok
           THEN /\ stack' = Pop
                /\ ret' = Some(gid)
           ELSE /\ stack' = Append(SetTop([f EXCEPT !.pc = "tasks"]),
                                   TasksRecursiveFrame(gid.val,
                                                       ToolSubtaskDepth(f.p.subtask_depth),
                                                       ToolPortfolioDepth(f.p.depth)))
                /\ ret' = None
    /\ UNCHANGED <<world, call, http>>

\* get_tasks_recursive returned: .map_err(|e| error_to_mcp("Failed to get tasks", e))?; json_response(&tasks)
AsanaGetProjectTasksReturn ==
    /\ Running("asana_get")
    /\ Top.p.resource_type = "project_tasks"
    /\ Top.pc = "tasks"
    /\ ret # None
    /\ stack' = Pop
    /\ ret' = Some(IF ret[1].ok THEN json_response(ret[1].val)
                   ELSE Err(error_to_mcp("Failed to get tasks", ret[1].err)))
    /\ UNCHANGED <<world, call, http>>

\* get_tasks_recursive: the probe GET /projects/{gid} with opt_fields=gid, then
\* the project path, the portfolio path, or the error of the probe
TasksRecursiveProbe ==
    /\ Awaiting("get_tasks_recursive")
    /\ Caller.pc = "start"
    /\ LET f == Caller
           path == ProjectPath(f.gid)
       IN  \E a \in DetailOutcomes(world, path, Len(http) + 1) :
             /\ http' = Append(http, Exchange(path, OptFields("gid"), a))
             /\ CASE ProbeArm(a) = "project" ->
                       /\ stack' = Append(SetCaller([f EXCEPT !.pc = "project"]),
                                          TasksFromProjectFrame(f.gid, f.subtask_depth))
                       /\ ret' = None
                  [] ProbeArm(a) = "portfolio" ->
                       /\ stack' = Append(SetCaller([f EXCEPT !.pc = "portfolio"]),
                                          TasksFromPortfolioFrame(f.gid, f.subtask_depth,
                                                                  f.portfolio_depth))
                       /\ ret' = None
                  [] OTHER ->
                       /\ stack' = PopCaller
                       /\ ret' = Some(a)
    /\ UNCHANGED <<world, call>>

\* get_tasks_recursive: the probe goes out
TasksRecursiveProbeSend ==
    /\ Running("get_tasks_recursive")
    /\ Top.pc = "start"
    /\ stack' = Issue([path |-> ProjectPath(Top.gid), query |-> OptFields("gid")])
    /\ UNCHANGED <<world, call, http, ret>>

\* the value of the path taken is the value of get_tasks_recursive
TasksRecursiveReturn ==
    /\ Running("get_tasks_recursive")
    /\ Top.pc \in {"project", "portfolio"}
    /\ ret # None
    /\ stack' = Pop
    /\ UNCHANGED <<world, call, http, ret>>

\* get_tasks_from_portfolio: self.get_portfolio_recursive(portfolio_gid, depth)
TasksFromPortfolioExpand ==
    /\ Running("get_tasks_from_portfolio")
    /\ Top.pc = "start"
    /\ stack' = Append(SetTop([Top EXCEPT !.pc = "portfolio"]),
                       PortfolioFrame(Top.portfolio_gid,
                                      PortfolioDepth(Top.portfolio_depth), 0))
    /\ UNCHANGED <<world, call, http, ret>>

\* the expansion returned: let portfolio = ..await?; the project gids are collected
TasksFromPortfolioCollect ==
    /\ Running("get_tasks_from_portfolio")
    /\ Top.pc = "portfolio"
    /\ ret # None
    /\ LET f == Top
           r == ExpandedPortfolio(ret[1])
       IN  IF ~r.ok
           THEN /\ stack' = Pop
                /\ ret' = Some(r)
           ELSE /\ stack' = SetTop([f EXCEPT
                                      !.pc = "loop",
                                      !.project_gids = collect_project_gids_from_portfolio(r.val),
                                      !.all_tasks = <<>>])
                /\ ret' = None
    /\ UNCHANGED <<world, call, http>>

\* for project_gid in project_gids: self.get_tasks_from_project(&project_gid, subtask_depth)
TasksFromPortfolioProject ==
    /\ Running("get_tasks_from_portfolio")
    /\ Top.pc = "loop"
    /\ Top.project_gids # <<>>
    /\ stack' = Append(SetTop([Top EXCEPT !.pc = "project"]),
                       TasksFromProjectFrame(Head(Top.project_gids), Top.subtask_depth))
    /\ UNCHANGED <<world, call, http, ret>>

\* get_tasks_from_project returned: extend all_tasks, skip the project on
\* NotFound, return any other error
TasksFromPortfolioTasks ==
    /\ Running("get_tasks_from_portfolio")
    /\ Top.pc = "project"
    /\ ret # None
    /\ LET f == Top
           r == ret[1]
       IN  CASE ProjectTasksArm(r) = "extend" ->
                  /\ stack' = SetTop([f EXCEPT !.pc = "loop",
                                               !.project_gids = Tail(f.project_gids),
                                               !.all_tasks = ExtendTasks(f.all_tasks, r.val)])
                  /\ ret' = None
             [] ProjectTasksArm(r) = "continue" ->
                  /\ stack' = SetTop([f EXCEPT !.pc = "loop",
                                               !.project_gids = Tail(f.project_gids)])
                  /\ ret' = None
             [] OTHER ->
                  /\ stack' = Pop
                  /\ ret' = Some(r)
    /\ UNCHANGED <<world, call, http>>

\* the loop is over: Ok(all_tasks)
TasksFromPortfolioReturn ==
    /\ Running("get_tasks_from_portfolio")
    /\ Top.pc = "loop"
    /\ Top.project_gids = <<>>
    /\ stack' = Pop
    /\ ret' = Some(Ok(Top.all_tasks))
    /\ UNCHANGED <<world, call, http>>

-----------------------------------------------------------------------------
(* The project_tasks tool: asana_get(project_tasks) and get_tasks_recursive *)
(* on a project, and on a portfolio of projects                            *)

\* The worlds of a call on the project "A": a task forest, no portfolio.
ProjectEntryWorlds ==
    {[items |-> <<>>] @@ w : w \in {v \in TaskWorlds : v.ps = 1}}

\* The worlds of a call on the portfolio "P": P lists projects, a task and Q, Q
\* lists a project; the first top-level task belongs to A, the others to B, and
\* num_subtasks is the number of subtasks.  The forests are those of
\* NumTasks - 1 tasks, and the one of t1 with the subtask t2 beside t3.
PortfolioEntryWorlds ==
    {[items |-> [P |-> [k \in DOMAIN p |-> PortfolioItem(p[k])],
                 Q |-> [k \in DOMAIN q |-> PortfolioItem(q[k])]],
      projects |-> Projects,
      project_tasks |->
          [g \in Projects |->
              LET roots == Listing(par, 0, "asc")
              IN  IF roots = <<>> THEN <<>>
                  ELSE IF g = "A" THEN <<Head(roots)>>
                  ELSE IF g = "B" THEN Tail(roots)
                  ELSE <<>>],
      subtasks |-> [t \in {TaskNames[i] : i \in 1..Len(par)} |->
                       Listing(par, CHOOSE i \in 1..Len(par) : TaskNames[i] = t, "asc")],
      hint |-> [t \in {TaskNames[i] : i \in 1..Len(par)} |->
                   Some(Len(Listing(par, CHOOSE i \in 1..Len(par) : TaskNames[i] = t, "asc")))],
      ps |-> 2] :
        p \in DistinctSeqs(Projects \cup {"Q", "X"}, 2),
        q \in DistinctSeqs(Projects, 1),
        par \in Forests(NumTasks - 1) \cup {<<0, 1, 0>>}}

\* The entries: the tool asana_get, or get_tasks_recursive called directly.
Entries == {"asana_get", "get_tasks_recursive"}

ProjectEntryCalls ==
    {[op |-> "tasks", via |-> "asana_get", gid |-> g, subtask_depth |-> s,
      depth |-> None] : g \in {Some("A")}, s \in Depths}
    \cup {[op |-> "tasks", via |-> "get_tasks_recursive", gid |-> g, subtask_depth |-> s,
           depth |-> None] : g \in {Some("A")}, s \in {None, Some(-1), Some(0)}}
    \cup {[op |-> "tasks", via |-> "asana_get", gid |-> g, subtask_depth |-> None,
           depth |-> None] : g \in {None, Some("")}}
    \cup {[op |-> "tasks", via |-> v, gid |-> Some("A"), subtask_depth |-> Some(1),
           depth |-> d] : v \in Entries, d \in {Some(-1), Some(0), Some(1)}}

\* The calls on the portfolio "P", and on "Z", which the service does not know.
PortfolioEntryCalls ==
    {[op |-> "tasks", via |-> v, gid |-> Some("P"), subtask_depth |-> s, depth |-> d] :
        v \in Entries, s \in {None}, d \in {None, Some(-1), Some(0), Some(1)}}
    \cup {[op |-> "tasks", via |-> v, gid |-> Some("Z"), subtask_depth |-> None,
           depth |-> None] : v \in Entries}

\* The parameters of the tool call.
GetParams(resource_type, c) ==
    [resource_type |-> resource_type, gid |-> c.gid,
     subtask_depth |-> c.subtask_depth, depth |-> c.depth]

InitProjectTasks ==
    /\ \/ world \in ProjectEntryWorlds /\ call \in ProjectEntryCalls
       \/ world \in PortfolioEntryWorlds /\ call \in PortfolioEntryCalls
    /\ stack = IF call.via = "asana_get"
               THEN <<AsanaGetFrame(GetParams("project_tasks", call))>>
               ELSE <<TasksRecursiveFrame(call.gid[1], call.subtask_depth, call.depth)>>
    /\ http = <<>>
    /\ ret = None

NextProjectTasks ==
    \/ GetAllSend
    \/ GetAllStep
    \/ AsanaGetProjectTasks
    \/ AsanaGetProjectTasksReturn
    \/ TasksRecursiveProbeSend
    \/ TasksRecursiveProbe
    \/ TasksRecursiveReturn
    \/ TasksFromPortfolioExpand
    \/ TasksFromPortfolioCollect
    \/ TasksFromPortfolioProject
    \/ TasksFromPortfolioTasks
    \/ TasksFromPortfolioReturn
    \/ TasksFromProjectList
    \/ TasksFromProjectExpand
    \/ TasksFromProjectReturn
    \/ ExpandSubtasksPush
    \/ ExpandSubtasksFetch
    \/ ExpandSubtasksRecurse
    \/ ExpandSubtasksNested
    \/ ExpandSubtasksReturn
    \/ FetchPortfolioDetailSend
    \/ FetchPortfolioDetail
    \/ FetchPortfolioItems
    \/ FetchPortfolioProjectSend
    \/ FetchPortfolioProject
    \/ FetchPortfolioRecurse
    \/ FetchPortfolioNested
    \/ FetchPortfolioSkip
    \/ FetchPortfolioReturn

SpecProjectTasks == InitProjectTasks /\ [][NextProjectTasks]_vars

-----------------------------------------------------------------------------
(* AsanaServer::resolve_workspace_gid, AsanaServer::asana_get              *)
(* (WorkspaceFavorites)                                                    *)

ResolveWorkspaceDefaultFirst(default_workspace_gid, provided) ==
    IF default_workspace_gid # None THEN Ok(default_workspace_gid[1])
    ELSE IF provided # None /\ provided[1] # "" THEN Ok(provided[1])
    ELSE Err(validation_error(
                 "workspace_gid is required (or set ASANA_DEFAULT_WORKSPACE env var)"))

\* match provided.filter(|s| !s.is_empty()) { Some(gid) => Ok(gid), None => default.ok_or_else(validation_error) }
resolve_workspace_gid(default_workspace_gid, provided) ==
    IF provided # None /\ provided[1] # "" THEN Ok(provided[1])
    ELSE IF default_workspace_gid # None THEN Ok(default_workspace_gid[1])
    ELSE Err(validation_error(
                 "workspace_gid is required (or set ASANA_DEFAULT_WORKSPACE env var)"))

\* "/users/me/favorites"
FavoritesPath == [ep |-> "favorites", gid |-> ""]

\* &[("workspace", workspace_gid), ("resource_type", ..), ("opt_fields", "gid,resource_type,name")]
FavoritesQuery(workspace_gid, resource_type) ==
    << <<"workspace", workspace_gid>>, <<"resource_type", resource_type>>,
       <<"opt_fields", "gid,resource_type,name">> >>

\* e.to_string(): the Display of the Error
ErrorDisplay(e) ==
    CASE e.kind = "NotFound" -> "resource not found: " \o Message(e)
      [] e.kind = "Api" -> "API error: " \o Message(e)
      [] e.kind = "Http" -> "HTTP error: " \o Message(e)
      [] e.kind = "Parse" -> "failed to parse response: " \o Message(e)
      [] e.kind = "MissingToken" -> "ASANA_TOKEN environment variable is not set"
      [] e.kind = "InvalidToken" -> "invalid token format"

\* FavoriteError { item, error: e.to_string() }
FavoriteError(item, e) == [item |-> item, error |-> ErrorDisplay(e)]

\* FavoritesResponse { projects, portfolios, errors }
FavoritesResponse(projects, portfolios, errors) ==
    [projects |-> projects, portfolios |-> portfolios, errors |-> errors]

ResolvedProjectOrDropped(f, item, r) ==
    IF r.ok THEN [f EXCEPT !.projects = Append(f.projects, r.val)]
    ELSE f

\* match project { Ok(project) => projects.push(project), Err(e) => errors.push(FavoriteError { item, error }) }
ResolvedProject(f, item, r) ==
    IF r.ok THEN [f EXCEPT !.projects = Append(f.projects, r.val)]
    ELSE [f EXCEPT !.errors = Append(f.errors, FavoriteError(item, r.err))]

ResolvedPortfolioFirst(f, item, r) ==
    IF r.ok THEN [f EXCEPT !.portfolios = <<r.val>> \o f.portfolios]
    ELSE [f EXCEPT !.errors = <<FavoriteError(item, r.err)>> \o f.errors]

\* match portfolio { Ok(portfolio) => portfolios.push(portfolio), Err(e) => errors.push(FavoriteError { item, error }) }
ResolvedPortfolio(f, item, r) ==
    IF r.ok THEN [f EXCEPT !.portfolios = Append(f.portfolios, r.val)]
    ELSE [f EXCEPT !.errors = Append(f.errors, FavoriteError(item, r.err))]

\* The workspace is resolved, the depth converted, the result lists are empty;
\* get_all is called for the favorite projects.
FavoritesStart ==
    /\ Running("asana_get")
    /\ Top.p.resource_type = "workspace_favorites"
    /\ Top.pc = "start"
    /\ LET f == Top
           workspace_gid == resolve_workspace_gid(call.default_workspace_gid, f.p.gid)
       IN  IF ~workspace_gid.ok
           THEN /\ stack' = Pop
                /\ ret' = Some(workspace_gid)
           ELSE /\ stack' =
                      Append(SetTop([fn |-> "asana_get", p |-> f.p, pc |-> "fav_projects",
                                     workspace_gid |-> workspace_gid.val,
                                     depth |-> depth_to_option(UnwrapOr(f.p.depth, 0)),
                                     projects |-> <<>>, portfolios |-> <<>>,
                                     errors |-> <<>>, fav |-> <<>>]),
                             GetAllFrame(FavoritesPath,
                                         FavoritesQuery(workspace_gid.val, "project")))
                /\ ret' = None
    /\ UNCHANGED <<world, call, http>>

\* get_all returned: .map_err(|e| error_to_mcp("Failed to get favorite projects", e))?
FavoritesProjects ==
    /\ Running("asana_get")
    /\ Top.pc = "fav_projects"
    /\ ret # None
    /\ IF ~ret[1].ok
       THEN /\ stack' = Pop
            /\ ret' = Some(Err(error_to_mcp("Failed to get favorite projects", ret[1].err)))
       ELSE /\ stack' = SetTop([Top EXCEPT !.pc = "projects", !.fav = ret[1].val])
            /\ ret' = None
    /\ UNCHANGED <<world, call, http>>

\* for item in fav_projects: one project detail request, its result or its error kept
FavoritesProject ==
    /\ Awaiting("asana_get")
    /\ Caller.pc = "projects"
    /\ Caller.fav # <<>>
    /\ LET f == Caller
           item == Head(f.fav)
           path == ProjectPath(item.gid)
       IN  \E a \in DetailOutcomes(world, path, Len(http) + 1) :
             /\ http' = Append(http, Exchange(path, OptFields(PROJECT_FIELDS), a))
             /\ stack' = SetCaller(ResolvedProject([f EXCEPT !.fav = Tail(f.fav)], item, a))
    /\ UNCHANGED <<world, call, ret>>

\* for item in fav_projects: the project detail request goes out
FavoritesProjectSend ==
    /\ Running("asana_get")
    /\ Top.pc = "projects"
    /\ Top.fav # <<>>
    /\ stack' = Issue([path |-> ProjectPath(Head(Top.fav).gid),
                       query |-> OptFields(PROJECT_FIELDS)])
    /\ UNCHANGED <<world, call, http, ret>>

\* the loop over the projects is over: get_all is called for the favorite portfolios
FavoritesPortfoliosList ==
    /\ Running("asana_get")
    /\ Top.pc = "projects"
    /\ Top.fav = <<>>
    /\ stack' = Append(SetTop([Top EXCEPT !.pc = "fav_portfolios"]),
                       GetAllFrame(FavoritesPath,
                                   FavoritesQuery(Top.workspace_gid, "portfolio")))
    /\ UNCHANGED <<world, call, http, ret>>

\* get_all returned: .map_err(|e| error_to_mcp("Failed to get favorite portfolios", e))?
FavoritesPortfolios ==
    /\ Running("asana_get")
    /\ Top.pc = "fav_portfolios"
    /\ ret # None
    /\ IF ~ret[1].ok
       THEN /\ stack' = Pop
            /\ ret' = Some(Err(error_to_mcp("Failed to get favorite portfolios", ret[1].err)))
       ELSE /\ stack' = SetTop([Top EXCEPT !.pc = "portfolios", !.fav = ret[1].val])
            /\ ret' = None
    /\ UNCHANGED <<world, call, http>>

\* for item in fav_portfolios: self.get_portfolio_recursive(&item.gid, depth)
FavoritesPortfolio ==
    /\ Running("asana_get")
    /\ Top.pc = "portfolios"
    /\ Top.fav # <<>>
    /\ stack' = Append(SetTop([Top EXCEPT !.pc = "portfolio"]),
                       PortfolioFrame(Head(Top.fav).gid, Top.depth, 0))
    /\ UNCHANGED <<world, call, http, ret>>

\* the expansion returned: its tree or its error is kept, the loop goes on
FavoritesPortfolioResolved ==
    /\ Running("asana_get")
    /\ Top.pc = "portfolio"
    /\ ret # None
    /\ stack' = SetTop(ResolvedPortfolio([Top EXCEPT !.pc = "portfolios",
                                                     !.fav = Tail(Top.fav)],
                                         Head(Top.fav), ret[1]))
    /\ ret' = None
    /\ UNCHANGED <<world, call, http>>

\* the loop over the portfolios is over: json_response(&FavoritesResponse { .. })
FavoritesReturn ==
    /\ Running("asana_get")
    /\ Top.pc = "portfolios"
    /\ Top.fav = <<>>
    /\ stack' = Pop
    /\ ret' = Some(json_response(FavoritesResponse(Top.projects, Top.portfolios,
                                                   Top.errors)))
    /\ UNCHANGED <<world, call, http>>

-----------------------------------------------------------------------------
(* The workspace_favorites tool on a list of favorite projects and portfolios *)

\* The number of favorite references, projects and portfolios together.
MaxFavs == 3

\* A reference as /users/me/favorites lists it.
FavoriteItem(gid, resource_type) ==
    [gid |-> gid, resource_type |-> resource_type, name |-> Some("name of " \o gid)]

\* The favorites: a list of projects (C is gone) and a list of portfolios; P
\* holds a task, Q and project A, Q holds nothing; lists come in pages of two.
FavoriteWorlds ==
    UNION {{[favorites |->
                 [project |-> [k \in DOMAIN pr |-> FavoriteItem(pr[k], "project")],
                  portfolio |-> [k \in DOMAIN pf |-> FavoriteItem(pf[k], "portfolio")]],
             items |-> [P |-> <<PortfolioItem("X"), PortfolioItem("Q"), PortfolioItem("A")>>,
                        Q |-> <<>>],
             projects |-> Projects,
             ps |-> 2] :
               pf \in DistinctSeqs({"P", "Q"}, MaxFavs - Len(pr))} :
           pr \in DistinctSeqs({"A", "B", "C"}, MaxFavs)}

\* The calls: the workspace given, or left to the default of the server (which
\* may be unset); the depth given or omitted.
FavoriteCalls ==
    {[op |-> "favorites", via |-> "asana_get", gid |-> c[1], depth |-> c[3],
      subtask_depth |-> None, default_workspace_gid |-> c[2]] :
        c \in {<<Some("W"), None, None>>, <<Some("W"), Some("D"), Some(1)>>,
                <<None, Some("D"), Some(1)>>, <<None, None, None>>,
                <<Some(""), None, Some(1)>>}}

InitFavorites ==
    /\ world \in FavoriteWorlds
    /\ call \in FavoriteCalls
    /\ stack = <<AsanaGetFrame(GetParams("workspace_favorites", call))>>
    /\ http = <<>>
    /\ ret = None

NextFavorites ==
    \/ GetAllSend
    \/ GetAllStep
    \/ FavoritesStart
    \/ FavoritesProjects
    \/ FavoritesProjectSend
    \/ FavoritesProject
    \/ FavoritesPortfoliosList
    \/ FavoritesPortfolios
    \/ FavoritesPortfolio
    \/ FavoritesPortfolioResolved
    \/ FavoritesReturn
    \/ FetchPortfolioDetailSend
    \/ FetchPortfolioDetail
    \/ FetchPortfolioItems
    \/ FetchPortfolioProjectSend
    \/ FetchPortfolioProject
    \/ FetchPortfolioRecurse
    \/ FetchPortfolioNested
    \/ FetchPortfolioSkip
    \/ FetchPortfolioReturn

SpecFavorites == InitFavorites /\ [][NextFavorites]_vars

-----------------------------------------------------------------------------
(* asana_get(Task), AsanaServer::get_task_with_context *)

TASK_FULL_FIELDS == "gid,name,resource_type,completed,completed_at,completed_by,completed_by.name,assignee,assignee.name,assignee.email,due_on,due_at,start_on,start_at,notes,html_notes,created_at,created_by,created_by.name,modified_at,permalink_url,parent,parent.name,num_likes,num_subtasks,liked,projects,projects.name,workspace,workspace.name,tags,tags.name,memberships,memberships.project,memberships.project.name,memberships.section,memberships.section.name,assignee_section,assignee_section.name"

SUBTASK_FIELDS == "gid,name,completed,assignee,assignee.name,due_on,num_subtasks"

STORY_FIELDS == "gid,created_at,created_by,created_by.name,resource_subtype,text,html_text,is_pinned,is_edited,num_likes,liked"

DEPENDENCY_FIELDS == "gid,name,resource_type"

TaskPath(gid) == [ep |-> "task", gid |-> gid]

DependenciesPath(gid) == [ep |-> "task_dependencies", gid |-> gid]

DependentsPath(gid) == [ep |-> "task_dependents", gid |-> gid]

StoriesPath(gid) == [ep |-> "task_stories", gid |-> gid]

IsCommentAny(story) == story.resource_subtype # None

\* Story::is_comment: resource_subtype is "comment_added"
is_comment(story) == story.resource_subtype = Some("comment_added")

\* TaskWithContext { task, subtasks, dependencies, dependents, comments }
TaskWithContext(f, comments) ==
    [task |-> f.task[1], subtasks |-> f.subtasks, dependencies |-> f.dependencies,
     dependents |-> f.dependents, comments |-> comments]

TaskContextFrame(gid, include_subtasks, include_dependencies, include_comments) ==
    [fn |-> "get_task_with_context", gid |-> gid,
     include_subtasks |-> include_subtasks,
     include_dependencies |-> include_dependencies,
     include_comments |-> include_comments,
     pc |-> "start", task |-> None, subtasks |-> <<>>, dependencies |-> <<>>,
     dependents |-> <<>>]

\* asana_get, ResourceType::Task: the gid is required, the flags default to
\* true, get_task_with_context is called
AsanaGetTask ==
    /\ Running("asana_get")
    /\ Top.p.resource_type = "task"
    /\ Top.pc = "start"
    /\ LET f == Top
           gid == require_gid(f.p.gid, "task")
       IN  IF ~gid.ok
           THEN /\ stack' = Pop
                /\ ret' = Some(gid)
           ELSE /\ stack' = Append(SetTop([f EXCEPT !.pc = "task"]),
                                   TaskContextFrame(gid.val,
                                                    UnwrapOr(f.p.include_subtasks, TRUE),
                                                    UnwrapOr(f.p.include_dependencies, TRUE),
                                                    UnwrapOr(f.p.include_comments, TRUE)))
                /\ ret' = None
    /\ UNCHANGED <<world, call, http>>

\* get_task_with_context returned: .map_err(|e| error_to_mcp("Failed to get task", e))?; json_response(&task)
AsanaGetTaskReturn ==
    /\ Running("asana_get")
    /\ Top.p.resource_type = "task"
    /\ Top.pc = "task"
    /\ ret # None
    /\ stack' = Pop
    /\ ret' = Some(IF ret[1].ok THEN json_response(ret[1].val)
                   ELSE Err(error_to_mcp("Failed to get task", ret[1].err)))
    /\ UNCHANGED <<world, call, http>>

\* The task detail request goes out.
TaskContextTaskSend ==
    /\ Running("get_task_with_context")
    /\ Top.pc = "start"
    /\ stack' = Issue([path |-> TaskPath(Top.gid), query |-> OptFields(TASK_FULL_FIELDS)])
    /\ UNCHANGED <<world, call, http, ret>>

\* let task: Resource = self.client.get("/tasks/{gid}", opt_fields).await?
TaskContextTask ==
    /\ Awaiting("get_task_with_context")
    /\ Caller.pc = "start"
    /\ LET f == Caller
           path == TaskPath(f.gid)
       IN  \E a \in DetailOutcomes(world, path, Len(http) + 1) :
             /\ http' = Append(http, Exchange(path, OptFields(TASK_FULL_FIELDS), a))
             /\ IF ~a.ok
                THEN /\ stack' = PopCaller
                     /\ ret' = Some(a)
                ELSE /\ stack' = SetCaller([f EXCEPT !.pc = "subtasks", !.task = Some(a.val)])
                     /\ ret' = None
    /\ UNCHANGED <<world, call>>

\* let subtasks = if include_subtasks { get_all(..) } else { Vec::new() }
TaskContextSubtasks ==
    /\ Running("get_task_with_context")
    /\ Top.pc = "subtasks"
    /\ stack' = IF Top.include_subtasks
                THEN Append(SetTop([Top EXCEPT !.pc = "subtasks_ret"]),
                            GetAllFrame(SubtasksPath(Top.gid), OptFields(SUBTASK_FIELDS)))
                ELSE SetTop([Top EXCEPT !.pc = "dependencies", !.subtasks = <<>>])
    /\ UNCHANGED <<world, call, http, ret>>

\* get_all returned the subtasks, or its error is returned
TaskContextSubtasksReturn ==
    /\ Running("get_task_with_context")
    /\ Top.pc = "subtasks_ret"
    /\ ret # None
    /\ IF ~ret[1].ok
       THEN /\ stack' = Pop
            /\ ret' = ret
       ELSE /\ stack' = SetTop([Top EXCEPT !.pc = "dependencies", !.subtasks = ret[1].val])
            /\ ret' = None
    /\ UNCHANGED <<world, call, http>>

\* let (dependencies, dependents) = if include_dependencies { .. } else { (Vec::new(), Vec::new()) }
TaskContextDependencies ==
    /\ Running("get_task_with_context")
    /\ Top.pc = "dependencies"
    /\ stack' = IF Top.include_dependencies
                THEN Append(SetTop([Top EXCEPT !.pc = "dependencies_ret"]),
                            GetAllFrame(DependenciesPath(Top.gid),
                                        OptFields(DEPENDENCY_FIELDS)))
                ELSE SetTop([Top EXCEPT !.pc = "comments", !.dependencies = <<>>,
                                        !.dependents = <<>>])
    /\ UNCHANGED <<world, call, http, ret>>

\* get_all returned the dependencies: get_all is called for the dependents
TaskContextDependenciesReturn ==
    /\ Running("get_task_with_context")
    /\ Top.pc = "dependencies_ret"
    /\ ret # None
    /\ IF ~ret[1].ok
       THEN /\ stack' = Pop
            /\ ret' = ret
       ELSE /\ stack' = Append(SetTop([Top EXCEPT !.pc = "dependents_ret",
                                                  !.dependencies = ret[1].val]),
                               GetAllFrame(DependentsPath(Top.gid),
                                           OptFields(DEPENDENCY_FIELDS)))
            /\ ret' = None
    /\ UNCHANGED <<world, call, http>>

\* get_all returned the dependents, or its error is returned
TaskContextDependentsReturn ==
    /\ Running("get_task_with_context")
    /\ Top.pc = "dependents_ret"
    /\ ret # None
    /\ IF ~ret[1].ok
       THEN /\ stack' = Pop
            /\ ret' = ret
       ELSE /\ stack' = SetTop([Top EXCEPT !.pc = "comments", !.dependents = ret[1].val])
            /\ ret' = None
    /\ UNCHANGED <<world, call, http>>

\* let comments = if include_comments { get_all(stories) .. } else { Vec::new() }
TaskContextComments ==
    /\ Running("get_task_with_context")
    /\ Top.pc = "comments"
    /\ IF Top.include_comments
       THEN /\ stack' = Append(SetTop([Top EXCEPT !.pc = "stories_ret"]),
                               GetAllFrame(StoriesPath(Top.gid), OptFields(STORY_FIELDS)))
            /\ ret' = ret
       ELSE /\ stack' = Pop
            /\ ret' = Some(Ok(TaskWithContext(Top, <<>>)))
    /\ UNCHANGED <<world, call, http>>

\* stories.into_iter().filter(|s| s.is_comment()).collect(); Ok(TaskWithContext { .. })
TaskContextCommentsReturn ==
    /\ Running("get_task_with_context")
    /\ Top.pc = "stories_ret"
    /\ ret # None
    /\ stack' = Pop
    /\ ret' = IF ~ret[1].ok THEN ret
              ELSE Some(Ok(TaskWithContext(Top, SelectSeq(ret[1].val, is_comment))))
    /\ UNCHANGED <<world, call, http>>

-----------------------------------------------------------------------------
(* The task tool: asana_get(task) and get_task_with_context against one task *)

\* The longest list of stories of a task.
MaxStories == 2

\* A story as the stories endpoint lists it.
Story(i, resource_subtype) ==
    [gid |-> "s" \o ToString(i), resource_subtype |-> resource_subtype]

\* A task as the dependencies and dependents endpoints list it.
TaskDependency(gid) == [gid |-> gid, resource_type |-> "task"]

\* Task t1 with its subtasks (none, one, or three on two pages), its
\* dependencies, its dependents and its stories, comments and others.
TaskContextWorlds ==
    {[tasks |-> {"t1"},
      subtasks |-> [t \in {"t1"} |-> sub],
      hint |-> [t \in {"t2", "t3", "t4"} |-> Some(0)],
      dependencies |-> [t \in {"t1"} |-> deps],
      dependents |-> [t \in {"t1"} |-> depts],
      stories |-> [t \in {"t1"} |-> [i \in DOMAIN kinds |-> Story(i, kinds[i])]],
      ps |-> 2] :
        sub \in {<<>>, <<"t2">>, <<"t2", "t3", "t4">>},
        deps \in {<<>>, <<TaskDependency("t5")>>},
        depts \in {<<>>, <<TaskDependency("t6")>>},
        kinds \in UNION {[1..n -> {Some("comment_added"), Some("assigned"), None}] :
                            n \in 0..MaxStories}}

OptionalFlags == {None, Some(TRUE), Some(FALSE)}

\* The calls: through the tool with every choice of flags, through the tool
\* without a gid or for a task that is not there, and get_task_with_context
\* itself.
TaskContextCalls ==
    {[op |-> "task", via |-> "asana_get", gid |-> Some("t1"), include_subtasks |-> s,
      include_dependencies |-> d, include_comments |-> c] :
        s \in OptionalFlags, d \in OptionalFlags, c \in OptionalFlags}
    \cup {[op |-> "task", via |-> "asana_get", gid |-> g, include_subtasks |-> None,
           include_dependencies |-> None, include_comments |-> None] :
             g \in {None, Some(""), Some("t9")}}
    \cup {[op |-> "task", via |-> "get_task_with_context", gid |-> Some("t1"),
           include_subtasks |-> Some(s), include_dependencies |-> Some(d),
           include_comments |-> Some(c)] :
             s \in BOOLEAN, d \in BOOLEAN, c \in BOOLEAN}

GetTaskParams(c) ==
    [resource_type |-> "task", gid |-> c.gid, include_subtasks |-> c.include_subtasks,
     include_dependencies |-> c.include_dependencies,
     include_comments |-> c.include_comments]

InitTaskContext ==
    /\ world \in TaskContextWorlds
    /\ call \in TaskContextCalls
    /\ stack = IF call.via = "asana_get"
               THEN <<AsanaGetFrame(GetTaskParams(call))>>
               ELSE <<TaskContextFrame(call.gid[1], call.include_subtasks[1],
                                       call.include_dependencies[1],
                                       call.include_comments[1])>>
    /\ http = <<>>
    /\ ret = None

NextTaskContext ==
    \/ GetAllSend
    \/ GetAllStep
    \/ AsanaGetTask
    \/ AsanaGetTaskReturn
    \/ TaskContextTaskSend
    \/ TaskContextTask
    \/ TaskContextSubtasks
    \/ TaskContextSubtasksReturn
    \/ TaskContextDependencies
    \/ TaskContextDependenciesReturn
    \/ TaskContextDependentsReturn
    \/ TaskContextComments
    \/ TaskContextCommentsReturn

SpecTaskContext == InitTaskContext /\ [][NextTaskContext]_vars

-----------------------------------------------------------------------------
(* helpers::get_item_gids; types::Resource, decoded and encoded *)

GetItemGidsOrSingle(item_gid, item_gids) ==
    IF item_gids # None /\ item_gids[1] # <<>> THEN Ok(item_gids[1])
    ELSE IF item_gid # None THEN Ok(<<item_gid[1]>>)
    ELSE Err(validation_error("item_gid or item_gids is required"))

\* get_item_gids(p): item_gids when it is given (an error when it is given
\* empty), else item_gid alone, else an error
get_item_gids(item_gid, item_gids) ==
    IF item_gids # None
    THEN (IF item_gids[1] = <<>>
          THEN Err(validation_error("item_gids cannot be empty"))
          ELSE Ok(item_gids[1]))
    ELSE IF item_gid # None THEN Ok(<<item_gid[1]>>)
    ELSE Err(validation_error("item_gid or item_gids is required"))

\* A JSON value of a payload: a string, a number or null.
JsonString(v) == [t |-> "string", v |-> v]

JsonNumber(n) == [t |-> "number", v |-> ToString(n)]

JsonNull == [t |-> "null", v |-> ""]

\* The keys of a payload in the order a Map<String, Value> holds them.
KeyOrder == <<"custom_field", "gid", "name", "resource_type">>

\* The entries of an object as a serializer emits them: key and value, one
\* after the other.
ObjectEntries(object) ==
    LET keys == SelectSeq(KeyOrder, LAMBDA k : k \in DOMAIN object)
    IN  [i \in DOMAIN keys |-> <<keys[i], object[keys[i]]>>]

FieldsWithGid(payload) ==
    [k \in DOMAIN payload \ {"resource_type"} |-> payload[k]]

\* #[serde(flatten)] fields: the entries of the payload that no named field
\* of the struct took
FlattenFields(payload) ==
    [k \in DOMAIN payload \ {"gid", "resource_type"} |-> payload[k]]

\* serde_json::from_str::<Resource>: gid is a required string, resource_type
\* an optional string (absent and null are None), the rest goes to fields
DecodeResource(payload) ==
    IF "gid" \notin DOMAIN payload THEN Err([kind |-> "Parse", message |-> "missing field gid"])
    ELSE IF payload["gid"].t # "string"
    THEN Err([kind |-> "Parse", message |-> "invalid type"])
    ELSE IF "resource_type" \in DOMAIN payload
            /\ payload["resource_type"].t \notin {"string", "null"}
    THEN Err([kind |-> "Parse", message |-> "invalid type"])
    ELSE Ok([gid |-> payload["gid"].v,
             resource_type |-> IF "resource_type" \in DOMAIN payload
                                  /\ payload["resource_type"].t = "string"
                               THEN Some(payload["resource_type"].v)
                               ELSE None,
             fields |-> FlattenFields(payload)])

\* serde_json::to_string(&resource): gid, resource_type (null when None), then
\* the entries of fields
EncodeResource(resource) ==
    << <<"gid", JsonString(resource.gid)>>,
       <<"resource_type", IF resource.resource_type = None THEN JsonNull
                          ELSE JsonString(resource.resource_type[1])>> >>
        \o ObjectEntries(resource.fields)

\* One helper applied to its arguments.
HelperFrame(c) == [fn |-> c.fn, pc |-> "start"]

\* error_to_mcp(context, error)
ErrorToMcp ==
    /\ Running("error_to_mcp")
    /\ stack' = Pop
    /\ ret' = Some(error_to_mcp(call.context, call.error))
    /\ UNCHANGED <<world, call, http>>

\* get_item_gids(&p)
GetItemGids ==
    /\ Running("get_item_gids")
    /\ stack' = Pop
    /\ ret' = Some(get_item_gids(call.item_gid, call.item_gids))
    /\ UNCHANGED <<world, call, http>>

\* let resource: Resource = serde_json::from_str(json)
ResourceDecode ==
    /\ Running("Resource")
    /\ Top.pc = "start"
    /\ LET r == DecodeResource(call.payload)
       IN  IF r.ok
           THEN /\ stack' = SetTop([fn |-> "Resource", pc |-> "decoded", resource |-> r.val])
                /\ ret' = ret
           ELSE /\ stack' = Pop
                /\ ret' = Some(r)
    /\ UNCHANGED <<world, call, http>>

\* serde_json::to_string(&resource)
ResourceEncode ==
    /\ Running("Resource")
    /\ Top.pc = "decoded"
    /\ stack' = Pop
    /\ ret' = Some(Ok(EncodeResource(Top.resource)))
    /\ UNCHANGED <<world, call, http>>

\* The errors: every kind, with the message of one of three requests.
HelperErrors ==
    {[kind |-> k, at |-> n] :
        k \in {"NotFound", "MissingToken", "InvalidToken", "Api", "Http", "Parse"},
        n \in 1..3}

HelperContexts == {"Failed to get project", "Failed to search tasks", "Test", ""}

ItemGidLists == {None, Some(<<>>), Some(<<"a">>), Some(<<"a", "b">>), Some(<<"">>)}

JsonValues == {JsonString("123"), JsonString("project"), JsonNumber(7), JsonNull}

\* The payloads: objects over the keys of KeyOrder, any of them absent.
Payloads ==
    UNION {[K -> JsonValues] : K \in SUBSET {KeyOrder[i] : i \in DOMAIN KeyOrder}}

HelperCalls ==
    {[op |-> "helper", fn |-> "error_to_mcp", context |-> c, error |-> e] :
        c \in HelperContexts, e \in HelperErrors}
    \cup {[op |-> "helper", fn |-> "get_item_gids", item_gid |-> g, item_gids |-> gs] :
             g \in {None, Some("single"), Some("")}, gs \in ItemGidLists}
    \cup {[op |-> "helper", fn |-> "Resource", payload |-> p] : p \in Payloads}

InitHelpers ==
    /\ world = [ps |-> 1]
    /\ call \in HelperCalls
    /\ stack = <<HelperFrame(call)>>
    /\ http = <<>>
    /\ ret = None

NextHelpers ==
    \/ ErrorToMcp
    \/ GetItemGids
    \/ ResourceDecode
    \/ ResourceEncode

SpecHelpers == InitHelpers /\ [][NextHelpers]_vars

-----------------------------------------------------------------------------
(* AsanaServer::asana_get (Project, WorkspaceTags), asana_create (Subtask,  *)
(* Portfolio), asana_update (Section), asana_link (TaskProject,            *)
(* TaskDependency, TaskParent), asana_resource_search                      *)

\* success_response(message): Ok(CallToolResult::success({"success": true, "message": message}))
success_response(message) == Ok([content |-> message])

TAG_FIELDS == "gid,name,color,notes,workspace,workspace.name,created_at,permalink_url"

\* format!("/workspaces/{}/tags", workspace_gid)
WorkspaceTagsPath(workspace_gid) == [ep |-> "workspace_tags", gid |-> workspace_gid]

\* format!("/workspaces/{}/typeahead", workspace_gid)
TypeaheadPath(workspace_gid) == [ep |-> "typeahead", gid |-> workspace_gid]

\* if let Some(value) = option { data.insert(key, json!(value)) }
InsertSome(key, option) == IF option = None THEN <<>> ELSE << <<key, option[1]>> >>

\* A write request passed its validation: the path, the data of the body and
\* the context of its failure.
Write(ep, gid, data, context) ==
    Ok([path |-> [ep |-> ep, gid |-> gid], query |-> data, context |-> context])

\* asana_create up to the request: Subtask requires task_gid; Portfolio
\* resolves the workspace, then requires name
CreateRequest(default_workspace_gid, p) ==
    CASE p.resource_type = "subtask" ->
            IF p.task_gid = None
            THEN Err(validation_error("task_gid is required for subtask"))
            ELSE Write("create_subtask", p.task_gid[1], InsertSome("name", p.name),
                       "Failed to create subtask")
      [] p.resource_type = "portfolio" ->
            LET workspace_gid == resolve_workspace_gid(default_workspace_gid, p.workspace_gid)
            IN  IF ~workspace_gid.ok THEN workspace_gid
                ELSE IF p.name = None
                THEN Err(validation_error("name is required for portfolio"))
                ELSE Write("create_portfolio", "",
                           << <<"name", p.name[1]>>, <<"workspace", workspace_gid.val>> >>,
                           "Failed to create portfolio")

\* asana_update up to the request: Section requires name; the gid is a
\* String of the parameters and goes into the path as it is
UpdateRequest(p) ==
    CASE p.resource_type = "section" ->
            IF p.name = None
            THEN Err(validation_error("name is required for section update"))
            ELSE Write("update_section", p.gid, << <<"name", p.name[1]>> >>,
                       "Failed to update section")

\* asana_link up to the request: (Add, TaskProject) requires item_gid,
\* (Add, TaskDependency) takes get_item_gids, (Remove, TaskParent) takes nothing
LinkRequest(p) ==
    CASE p.action = "add" /\ p.relationship = "task_project" ->
            IF p.item_gid = None
            THEN Err(validation_error("item_gid (project) is required"))
            ELSE Write("addProject", p.target_gid, << <<"project", p.item_gid[1]>> >>,
                       "Failed to add task to project")
      [] p.action = "add" /\ p.relationship = "task_dependency" ->
            LET gids == get_item_gids(p.item_gid, p.item_gids)
            IN  IF ~gids.ok THEN gids
                ELSE Write("addDependencies", p.target_gid,
                           << <<"dependencies", gids.val>> >>, "Failed to add dependencies")
      [] p.action = "remove" /\ p.relationship = "task_parent" ->
            Write("setParent", p.target_gid, << <<"parent", "null">> >>,
                  "Failed to remove task parent")

\* What a write request may be answered with: the resource, or a failure.
WriteOutcomes(path, n) == {Ok(Resource(path.gid, path.ep))} \cup Failures(n)

ToolFrame(fn, p) == [fn |-> fn, p |-> p, pc |-> "start"]

\* asana_get, ResourceType::Project: the gid is required, the project is requested
AsanaGetProject ==
    /\ Running("asana_get")
    /\ Top.p.resource_type = "project"
    /\ LET gid == require_gid(Top.p.gid, "project")
       IN  IF ~gid.ok
           THEN /\ stack' = Pop
                /\ ret' = Some(gid)
           ELSE /\ stack' = Issue([path |-> ProjectPath(gid.val),
                                   query |-> OptFields(PROJECT_FIELDS)])
                /\ ret' = None
    /\ UNCHANGED <<world, call, http>>

\* .await.map_err(|e| error_to_mcp("Failed to get project", e))?; json_response(&project)
AsanaGetProjectReturn ==
    /\ Awaiting("asana_get")
    /\ Caller.p.resource_type = "project"
    /\ \E r \in DetailOutcomes(world, Top.path, Len(http) + 1) :
          /\ http' = Append(http, Exchange(Top.path, Top.query, r))
          /\ ret' = Some(IF r.ok THEN json_response(r.val)
                         ELSE Err(error_to_mcp("Failed to get project", r.err)))
    /\ stack' = PopCaller
    /\ UNCHANGED <<world, call>>

\* asana_get, ResourceType::WorkspaceTags: the workspace is resolved, get_all
\* is called for its tags
AsanaGetWorkspaceTags ==
    /\ Running("asana_get")
    /\ Top.p.resource_type = "workspace_tags"
    /\ Top.pc = "start"
    /\ LET workspace_gid == resolve_workspace_gid(call.default_workspace_gid, Top.p.gid)
       IN  IF ~workspace_gid.ok
           THEN /\ stack' = Pop
                /\ ret' = Some(workspace_gid)
           ELSE /\ stack' = Append(SetTop([Top EXCEPT !.pc = "tags"]),
                                   GetAllFrame(WorkspaceTagsPath(workspace_gid.val),
                                               OptFields(TAG_FIELDS)))
                /\ ret' = None
    /\ UNCHANGED <<world, call, http>>

\* .await.map_err(|e| error_to_mcp("Failed to list tags", e))?; json_response(&tags)
AsanaGetWorkspaceTagsReturn ==
    /\ Running("asana_get")
    /\ Top.pc = "tags"
    /\ ret # None
    /\ stack' = Pop
    /\ ret' = Some(IF ret[1].ok THEN json_response(ret[1].val)
                   ELSE Err(error_to_mcp("Failed to list tags", ret[1].err)))
    /\ UNCHANGED <<world, call, http>>

\* asana_create: the required parameters of the resource type, then the POST
AsanaCreate ==
    /\ Running("asana_create")
    /\ LET request == CreateRequest(call.default_workspace_gid, Top.p)
       IN  IF ~request.ok
           THEN /\ stack' = Pop
                /\ ret' = Some(request)
           ELSE /\ stack' = Issue(request.val)
                /\ ret' = None
    /\ UNCHANGED <<world, call, http>>

\* .await.map_err(|e| error_to_mcp(context, e))?; json_response(&resource)
AsanaCreateReturn ==
    /\ Awaiting("asana_create")
    /\ \E r \in WriteOutcomes(Top.path, Len(http) + 1) :
          /\ http' = Append(http, Exchange(Top.path, Top.query, r))
          /\ ret' = Some(IF r.ok THEN json_response(r.val)
                         ELSE Err(error_to_mcp(
                                  CreateRequest(call.default_workspace_gid, Caller.p).val.context,
                                  r.err)))
    /\ stack' = PopCaller
    /\ UNCHANGED <<world, call>>

\* asana_update: the required parameters of the resource type, then the PUT
AsanaUpdate ==
    /\ Running("asana_update")
    /\ LET request == UpdateRequest(Top.p)
       IN  IF ~request.ok
           THEN /\ stack' = Pop
                /\ ret' = Some(request)
           ELSE /\ stack' = Issue(request.val)
                /\ ret' = None
    /\ UNCHANGED <<world, call, http>>

\* .await.map_err(|e| error_to_mcp("Failed to update section", e))?; json_response(&section)
AsanaUpdateReturn ==
    /\ Awaiting("asana_update")
    /\ \E r \in WriteOutcomes(Top.path, Len(http) + 1) :
          /\ http' = Append(http, Exchange(Top.path, Top.query, r))
          /\ ret' = Some(IF r.ok THEN json_response(r.val)
                         ELSE Err(error_to_mcp(UpdateRequest(Caller.p).val.context, r.err)))
    /\ stack' = PopCaller
    /\ UNCHANGED <<world, call>>

\* asana_link: the item or the items of the relationship, then the POST
AsanaLink ==
    /\ Running("asana_link")
    /\ LET request == LinkRequest(Top.p)
       IN  IF ~request.ok
           THEN /\ stack' = Pop
                /\ ret' = Some(request)
           ELSE /\ stack' = Issue(request.val)
                /\ ret' = None
    /\ UNCHANGED <<world, call, http>>

\* .await.map_err(|e| error_to_mcp(context, e))?; success_response(..), or
\* json_response(&task) after setParent
AsanaLinkReturn ==
    /\ Awaiting("asana_link")
    /\ \E r \in WriteOutcomes(Top.path, Len(http) + 1) :
          /\ http' = Append(http, Exchange(Top.path, Top.query, r))
          /\ ret' = Some(IF ~r.ok
                         THEN Err(error_to_mcp(LinkRequest(Caller.p).val.context, r.err))
                         ELSE CASE Top.path.ep = "addProject" ->
                                      success_response("Task added to project")
                                [] Top.path.ep = "addDependencies" ->
                                      success_response("Dependencies added")
                                [] Top.path.ep = "setParent" -> json_response(r.val))
    /\ stack' = PopCaller
    /\ UNCHANGED <<world, call>>

\* asana_resource_search: the workspace is resolved, the query is required,
\* get_all is called for the typeahead
AsanaResourceSearch ==
    /\ Running("asana_resource_search")
    /\ Top.pc = "start"
    /\ LET workspace_gid == resolve_workspace_gid(call.default_workspace_gid,
                                                  Top.p.workspace_gid)
       IN  IF ~workspace_gid.ok
           THEN /\ stack' = Pop
                /\ ret' = Some(workspace_gid)
           ELSE IF Top.p.query = None
           THEN /\ stack' = Pop
                /\ ret' = Some(Err(validation_error("query is required")))
           ELSE /\ stack' =
                      Append(SetTop([Top EXCEPT !.pc = "typeahead"]),
                             GetAllFrame(TypeaheadPath(workspace_gid.val),
                                         << <<"query", Top.p.query[1]>>,
                                            <<"resource_type", Top.p.resource_type>>,
                                            <<"count", "20">>,
                                            <<"opt_fields", "gid,name,resource_type">> >>))
                /\ ret' = None
    /\ UNCHANGED <<world, call, http>>

\* .await.map_err(|e| error_to_mcp("Failed to search resources", e))?; json_response(&results)
AsanaResourceSearchReturn ==
    /\ Running("asana_resource_search")
    /\ Top.pc = "typeahead"
    /\ ret # None
    /\ stack' = Pop
    /\ ret' = Some(IF ret[1].ok THEN json_response(ret[1].val)
                   ELSE Err(error_to_mcp("Failed to search resources", ret[1].err)))
    /\ UNCHANGED <<world, call, http>>

-----------------------------------------------------------------------------
(* The tools with required parameters: one call of a tool *)

\* A gid or a workspace of the parameters: absent, empty or given.
OptionalGids(gid) == {None, Some(""), Some(gid)}

\* ASANA_DEFAULT_WORKSPACE: unset, set to nothing, or set.
DefaultWorkspaces == {None, Some(""), Some("D")}

OptionalNames == {None, Some("n")}

ToolCalls ==
    {[op |-> "tool", tool |-> "asana_get", default_workspace_gid |-> None,
      p |-> [resource_type |-> "project", gid |-> g, subtask_depth |-> None,
             depth |-> None]] : g \in OptionalGids("A")}
    \cup {[op |-> "tool", tool |-> "asana_get", default_workspace_gid |-> d,
           p |-> [resource_type |-> "workspace_tags", gid |-> g, subtask_depth |-> None,
                  depth |-> None]] : g \in OptionalGids("W"), d \in DefaultWorkspaces}
    \cup {[op |-> "tool", tool |-> "asana_create", default_workspace_gid |-> None,
           p |-> [resource_type |-> "subtask", task_gid |-> t, workspace_gid |-> None,
                  name |-> n]] : t \in OptionalGids("T"), n \in OptionalNames}
    \cup {[op |-> "tool", tool |-> "asana_create", default_workspace_gid |-> d,
           p |-> [resource_type |-> "portfolio", task_gid |-> None, workspace_gid |-> g,
                  name |-> n]] :
              g \in OptionalGids("W"), d \in DefaultWorkspaces, n \in OptionalNames}
    \cup {[op |-> "tool", tool |-> "asana_update", default_workspace_gid |-> None,
           p |-> [resource_type |-> "section", gid |-> g, name |-> n]] :
              g \in {"", "S"}, n \in OptionalNames}
    \cup {[op |-> "tool", tool |-> "asana_link", default_workspace_gid |-> None,
           p |-> [action |-> ar[1], relationship |-> ar[2], target_gid |-> "T",
                  item_gid |-> g, item_gids |-> gs]] :
              ar \in {<<"add", "task_project">>, <<"add", "task_dependency">>,
                      <<"remove", "task_parent">>},
              g \in {None, Some("single")}, gs \in ItemGidLists}
    \cup {[op |-> "tool", tool |-> "asana_resource_search", default_workspace_gid |-> d,
           p |-> [resource_type |-> "project", workspace_gid |-> g, query |-> q]] :
              g \in OptionalGids("W"), d \in DefaultWorkspaces, q \in {None, Some("q")}}

\* The service: project A exists, the list endpoints hold two pages.
ToolWorlds ==
    {[projects |-> pr, pages |-> <<<<"a", "b">>, <<"b">>>>, ps |-> 2] : pr \in {{}, {"A"}}}

InitTools ==
    /\ world \in ToolWorlds
    /\ call \in ToolCalls
    /\ stack = <<ToolFrame(call.tool, call.p)>>
    /\ http = <<>>
    /\ ret = None

NextTools ==
    \/ GetAllSend
    \/ GetAllStep
    \/ AsanaGetProject
    \/ AsanaGetProjectReturn
    \/ AsanaGetWorkspaceTags
    \/ AsanaGetWorkspaceTagsReturn
    \/ AsanaCreate
    \/ AsanaCreateReturn
    \/ AsanaUpdate
    \/ AsanaUpdateReturn
    \/ AsanaLink
    \/ AsanaLinkReturn
    \/ AsanaResourceSearch
    \/ AsanaResourceSearchReturn

SpecTools == InitTools /\ [][NextTools]_vars

-----------------------------------------------------------------------------
(* Portfolio expansion on a portfolio graph with a cycle *)

\* The graphs: P lists itself, alone, after a project, after a task, or
\* twice; P and Q list each other; P lists Q, which lists itself and a project.
CycleGraphs ==
    {[P |-> <<PortfolioItem("P")>>],
     [P |-> <<PortfolioItem("A"), PortfolioItem("P")>>],
     [P |-> <<PortfolioItem("X"), PortfolioItem("P")>>],
     [P |-> <<PortfolioItem("P"), PortfolioItem("P")>>],
     [P |-> <<PortfolioItem("Q")>>, Q |-> <<PortfolioItem("P")>>],
     [P |-> <<PortfolioItem("Q")>>, Q |-> <<PortfolioItem("Q"), PortfolioItem("B")>>]}

InitCycle ==
    /\ world \in {[items |-> g, projects |-> Projects, ps |-> ps] :
                      g \in CycleGraphs, ps \in {1, 2}}
    /\ call \in {[op |-> "cycle", gid |-> Portfolios[1], depth |-> d] : d \in Depths}
    /\ stack = <<PortfolioFrame(call.gid, depth_to_option(UnwrapOr(call.depth, 0)), 0)>>
    /\ http = <<>>
    /\ ret = None

SpecCycle == InitCycle /\ [][NextPortfolio]_vars

\* The runtime polls the future of the invocation until it completes, and the
\* service answers every request.
SpecCycleFair == SpecCycle /\ WF_vars(NextPortfolio)

-----------------------------------------------------------------------------
(* Pagination against a list endpoint that may hand out cursors for ever *)

CyclicItemsPath == [ep |-> "cyclic_items", gid |-> ""]

\* The endpoints: pages P1..Pn, the last of which ends the listing or hands
\* out the cursor of an earlier request (or of its own request) again.
InitPageCycle ==
    /\ world \in UNION {{[pages |-> p, back |-> b] :
                            b \in {None} \cup {Some(k) : k \in 0..(Len(p) - 1)}} :
                        p \in SeqsUpTo(SeqsUpTo(ItemNames, 1), MaxPages) \ {<<>>}}
    /\ call \in {[op |-> "get_all_cycle", path |-> CyclicItemsPath, query |-> q] :
                    q \in Queries}
    /\ stack = <<GetAllFrame(call.path, call.query)>>
    /\ http = <<>>
    /\ ret = None

SpecPageCycle == InitPageCycle /\ [][NextPage]_vars

\* The runtime polls the future of get_all until it completes, and the service
\* answers every request.
SpecPageCycleFair == SpecPageCycle /\ WF_vars(NextPage)

-----------------------------------------------------------------------------
(* Claims about get_all, checked under SpecPage *)

Result == ret[1]

\* The requests that carry an offset parameter.
OffsetCount(query) == Cardinality({i \in 1..Len(query) : query[i][1] = "offset"})

\* C1: against pages P1..Pn linked by cursors get_all returns exactly
\* P1 \o ... \o Pn in arrival order after exactly n requests, and the response
\* with the null cursor is the last one (it ends the call with Ok).
PaginationComplete ==
    call.op = "get_all" =>
        /\ Len(http) <= Len(world.pages)
        /\ \A k \in 1..Len(http) :
             (http[k].resp.ok /\ http[k].resp.val.next_page = None)
                 => (k = Len(http) /\ k = Len(world.pages) /\ Done /\ Result.ok)
        /\ (Done /\ Result.ok) =>
             /\ Result.val = Flatten(world.pages)
             /\ Len(http) = Len(world.pages)

PaginationCompleteWitness ==
    /\ call.op = "get_all" /\ Done /\ Result.ok
    /\ world.pages = << <<"a">>, <<"b", "a">>, <<"b">> >>
    /\ Result.val = <<"a", "b", "a", "b">>
    /\ Len(http) = 3

\* C2: the first request carries the caller's parameters and no offset; request
\* k+1 carries the caller's parameters unchanged plus exactly one offset, the
\* cursor of response k.
CursorThreading ==
    call.op = "get_all" =>
        \A k \in 1..Len(http) :
            IF k = 1
            THEN http[k].query = call.query /\ OffsetCount(http[k].query) = 0
            ELSE /\ http[k - 1].resp.ok
                 /\ http[k - 1].resp.val.next_page # None
                 /\ http[k].query =
                        Append(call.query,
                               <<"offset", http[k - 1].resp.val.next_page[1].offset>>)
                 /\ OffsetCount(http[k].query) = 1

CursorThreadingWitness ==
    /\ call.op = "get_all" /\ call.query # <<>>
    /\ Len(http) = 3
    /\ http[3].query = << <<"workspace", "123">>, <<"offset", "2">> >>

\* C3: when the request for page k fails, get_all returns that error, none of
\* the items of the pages before it, and issues no later request.
PaginationFailFast ==
    call.op = "get_all" =>
        \A k \in 1..Len(http) :
            ~http[k].resp.ok => (k = Len(http) /\ Done /\ ret = Some(http[k].resp))

PaginationFailFastWitness ==
    /\ call.op = "get_all" /\ Done /\ ~Result.ok
    /\ Len(http) = 3 /\ Result.err.at = 3
    /\ http[1].resp.val.data # <<>>

-----------------------------------------------------------------------------
(* Claims about portfolio expansion, checked under SpecPortfolio *)

\* The depth argument as given (0 when omitted), and whether it is unlimited.
DepthArg == IF call.depth = None THEN 0 ELSE call.depth[1]

Unlimited == DepthArg < 0

\* Whether a portfolio at nesting level d is to have its items listed.
Listed(d) == Unlimited \/ d < DepthArg

\* The references of a listing that have a child: projects and portfolios.
Kept(refs) == SelectSeq(refs, LAMBDA i : i.resource_type \in {"project", "portfolio"})

\* The requests k whose path is path.
Requests(path) == {k \in 1..Len(http) : http[k].path = path}

\* The detail requests issued for gid.
DetailCount(gid) ==
    Cardinality(Requests(PortfolioPath(gid))) + Cardinality(Requests(ProjectPath(gid)))

RECURSIVE NestDepth(_)
\* The number of portfolio levels below a node.
NestDepth(node) ==
    LET D == {NestDepth(node.items[i].val) + 1 :
                 i \in {j \in 1..Len(node.items) : node.items[j].kind = "Portfolio"}}
    IN  IF D = {} THEN 0 ELSE CHOOSE m \in D : \A x \in D : x <= m

RECURSIVE Gated(_, _)
\* Every portfolio of the tree at a level that is not listed has no items.
Gated(node, d) ==
    /\ ~Listed(d) => node.items = <<>>
    /\ \A i \in 1..Len(node.items) :
          node.items[i].kind = "Portfolio" => Gated(node.items[i].val, d + 1)

RECURSIVE Dispatched(_, _)
\* The children of every listed portfolio of the tree are its project and
\* portfolio references, in listing order, each under the arm of its tag.
Dispatched(node, d) ==
    Listed(d) =>
        LET refs == Kept(world.items[node.portfolio.gid])
        IN  /\ Len(node.items) = Len(refs)
            /\ \A i \in 1..Len(refs) :
                  IF refs[i].resource_type = "project"
                  THEN node.items[i] = ProjectChild(Resource(refs[i].gid, "project"))
                  ELSE /\ node.items[i].kind = "Portfolio"
                       /\ node.items[i].val.portfolio = Resource(refs[i].gid, "portfolio")
                       /\ Dispatched(node.items[i].val, d + 1)

RECURSIVE ProjectChildren(_, _)
\* The number of Project children with this gid in the tree.
ProjectChildren(node, gid) ==
    LET n(i) == IF node.items[i].kind = "Project"
                THEN (IF node.items[i].val.gid = gid THEN 1 ELSE 0)
                ELSE ProjectChildren(node.items[i].val, gid)
        sum[i \in 0..Len(node.items)] == IF i = 0 THEN 0 ELSE sum[i - 1] + n(i)
    IN  sum[Len(node.items)]

RECURSIVE Paths(_, _)
\* The number of paths of the portfolio graph from one node to another.
Paths(from, to) ==
    IF from = to THEN 1
    ELSE IF from \notin DOMAIN world.items THEN 0
    ELSE LET refs == Kept(world.items[from])
             sum[i \in 0..Len(refs)] ==
                 IF i = 0 THEN 0 ELSE sum[i - 1] + Paths(refs[i].gid, to)
         IN  sum[Len(refs)]

Nodes == DOMAIN world.items \cup world.projects \cup {"X"}

\* C4: with depth 0 or depth omitted the expansion issues exactly one request,
\* the portfolio detail, never lists the items, and returns one node with no
\* items, however many items the portfolio holds.
DepthZeroExpansion ==
    (call.op = "portfolio" /\ call.depth \in {None, Some(0)}) =>
        /\ Len(http) <= 1
        /\ \A k \in 1..Len(http) :
              /\ http[k].path = PortfolioPath(call.gid)
              /\ Done
        /\ Done => Len(http) = 1
        /\ (Done /\ Result.ok) =>
              Result.val = PortfolioWithItems(Resource(call.gid, "portfolio"), <<>>)

DepthZeroExpansionWitness ==
    /\ call.op = "portfolio" /\ call.depth = None
    /\ Done /\ Result.ok
    /\ Len(world.items[call.gid]) = 3
    /\ Result.val.items = <<>>

\* C5: a portfolio reached at level d has its items listed iff d < N (always,
\* when N is negative); at a level d >= N it is returned with no items and no
\* error, so the result never nests deeper than N.  With P = [A, Q], Q = [B]
\* and depth 1 the result is P with [Project(A), Portfolio(Q, no items)] and B
\* is never requested.
DepthGate ==
    call.op = "portfolio" =>
        /\ \A k \in 1..Len(http) :
              /\ http[k].path.ep = "portfolio_items" => Listed(http[k].level)
              /\ (http[k].path.ep = "portfolio" /\ http[k].resp.ok) =>
                    IF Listed(http[k].level)
                    THEN IF k < Len(http)
                         THEN /\ http[k + 1].path = PortfolioItemsPath(http[k].path.gid)
                              /\ http[k + 1].level = http[k].level
                         ELSE /\ stack # <<>>
                              /\ Top.fn \in {"get_all", "send"}
                              /\ Top.path = PortfolioItemsPath(http[k].path.gid)
                    ELSE k < Len(http) =>
                             http[k + 1].path # PortfolioItemsPath(http[k].path.gid)
        /\ (Done /\ Result.ok) =>
              /\ Gated(Result.val, 0)
              /\ ~Unlimited => NestDepth(Result.val) <= DepthArg
        /\ (/\ Done
            /\ call.depth = Some(1)
            /\ world.items["P"] = <<PortfolioItem("A"), PortfolioItem("Q")>>
            /\ world.items["Q"] = <<PortfolioItem("B")>>) =>
              /\ Result.ok =>
                    Result.val =
                        PortfolioWithItems(Resource("P", "portfolio"),
                            <<ProjectChild(Resource("A", "project")),
                              PortfolioChild(PortfolioWithItems(Resource("Q", "portfolio"), <<>>))>>)
              /\ DetailCount("B") = 0
              /\ Requests(PortfolioItemsPath("Q")) = {}

DepthGateWitness ==
    /\ call.op = "portfolio" /\ call.depth = Some(1)
    /\ Done /\ Result.ok
    /\ world.items["P"] = <<PortfolioItem("A"), PortfolioItem("Q")>>
    /\ world.items["Q"] = <<PortfolioItem("B")>>
    /\ Len(Result.val.items) = 2
    /\ Result.val.items[2].val.items = <<>>

\* C6 as stated: with a negative depth the expansion terminates and issues the
\* detail request for every reachable portfolio and project exactly once, also
\* for a node that more than one path leads to.
VisitsExactlyOnce ==
    (call.op = "portfolio" /\ Unlimited /\ Done /\ Result.ok) =>
        \A g \in Nodes : DetailCount(g) = IF Paths(call.gid, g) > 0 THEN 1 ELSE 0

\* C6, amended: with a negative depth the expansion terminates on every finite
\* acyclic graph and issues the detail request for every reachable portfolio
\* and project once for each path from the root to it (exactly once for a node
\* that a single path leads to, never for an unreachable one).
UnlimitedExpansion ==
    /\ (call.op = "portfolio" /\ Unlimited) ~> Done
    /\ []((call.op = "portfolio" /\ Unlimited /\ Done /\ Result.ok) =>
             \A g \in Nodes : DetailCount(g) = Paths(call.gid, g))

UnlimitedExpansionWitness ==
    /\ call.op = "portfolio" /\ Unlimited
    /\ Done /\ Result.ok
    /\ world.items["P"] = <<PortfolioItem("A"), PortfolioItem("Q")>>
    /\ world.items["Q"] = <<PortfolioItem("A")>>
    /\ DetailCount("A") = 2 /\ DetailCount("Q") = 1 /\ DetailCount("P") = 1

\* C7: in listing order, a "project" reference gives one project detail request
\* and a Project child, a "portfolio" reference a recursive expansion one level
\* deeper and a Portfolio child, any other reference no request, no child and
\* no error; the children are the project and portfolio references in their
\* original order.
TypeDispatch ==
    call.op = "portfolio" =>
        /\ \A k \in 1..Len(http) :
              /\ http[k].path.gid # "X"
              /\ http[k].path.ep = "project" =>
                    PortfolioItem(http[k].path.gid).resource_type = "project"
              /\ http[k].path.ep \in {"portfolio", "portfolio_items"} =>
                    PortfolioItem(http[k].path.gid).resource_type = "portfolio"
              /\ http[k].path.ep \in {"portfolio", "project"} =>
                    DetailAnswer(world, http[k].path, k).ok
              /\ (http[k].path.ep = "portfolio" /\ k > 1) =>
                    \E j \in 1..(k - 1) :
                        /\ http[j].path.ep = "portfolio_items"
                        /\ http[j].resp.ok
                        /\ PortfolioItem(http[k].path.gid) \in
                               {http[j].resp.val.data[i] : i \in 1..Len(http[j].resp.val.data)}
                        /\ http[k].level = http[j].level + 1
        /\ (Done /\ Result.ok) =>
              /\ Dispatched(Result.val, 0)
              /\ \A g \in world.projects :
                    Cardinality(Requests(ProjectPath(g))) = ProjectChildren(Result.val, g)

TypeDispatchWitness ==
    /\ call.op = "portfolio" /\ call.depth = Some(2)
    /\ Done /\ Result.ok
    /\ world.items["P"] = <<PortfolioItem("X"), PortfolioItem("Q"), PortfolioItem("A")>>
    /\ Len(Result.val.items) = 2
    /\ Result.val.items[1].kind = "Portfolio"
    /\ Result.val.items[2] = ProjectChild(Resource("A", "project"))

\* C8: when a request of the expansion fails (the root detail, an items page,
\* a project detail, anything inside a nested portfolio), no later request is
\* issued and what every frame returns, the whole expansion included, is that
\* error: never a tree.
ExpansionFailFast ==
    call.op = "portfolio" =>
        /\ \A k \in 1..Len(http) :
              ~http[k].resp.ok => (k = Len(http) /\ ret = Some(http[k].resp))
        /\ (Done /\ ~Result.ok) => (http # <<>> /\ Result = http[Len(http)].resp)

ExpansionFailFastWitness ==
    /\ call.op = "portfolio" /\ Done /\ ~Result.ok
    /\ world.items["P"] = <<PortfolioItem("Q"), PortfolioItem("A")>>
    /\ world.items["Q"] = <<PortfolioItem("B")>>
    /\ http[Len(http)].path = ProjectPath("B")
    /\ http[Len(http)].level = 1
    /\ Result.err.kind = "Api"
    /\ DetailCount("A") = 0

-----------------------------------------------------------------------------
(* Claims about task expansion, checked under SpecTasks *)

\* Whether the subtasks of a task have been requested.
Fetched(gid) == Requests(SubtasksPath(gid)) # {}

RECURSIVE PreOrder(_)
\* The depth-first pre-order of a listing: each task, then the pre-order of its
\* subtasks if they were fetched, then its next sibling.
PreOrder(list) ==
    IF list = <<>> THEN <<>>
    ELSE LET t == Head(list)
         IN  <<TaskResource(t, world.hint)>>
                 \o (IF Fetched(t) THEN PreOrder(world.subtasks[t]) ELSE <<>>)
                 \o PreOrder(Tail(list))

\* The gids of a sequence of resources.
Gids(resources) == [i \in DOMAIN resources |-> resources[i].gid]

Range(q) == {q[i] : i \in DOMAIN q}

RECURSIVE TaskDepth(_)
\* The number of levels a task lies below the top-level tasks of the project.
TaskDepth(gid) ==
    IF gid \in Range(world.project_tasks[call.gid]) THEN 0
    ELSE 1 + TaskDepth(CHOOSE p \in DOMAIN world.subtasks : gid \in Range(world.subtasks[p]))

HintNonzero(gid) == world.hint[gid] \notin {None, Some(0)}

\* Whether the subtasks of a task at level d are to be fetched under the
\* subtask depth given (negative: at every level).
SubtasksListed(d) == call.subtask_depth[1] < 0 \/ d < call.subtask_depth[1]

\* C9: the result is the depth-first pre-order of the task tree: every task is
\* immediately followed by the flattened list of its fetched subtasks, in
\* listing order, before its next sibling; top-level tasks keep listing order.
FlatTaskOrder ==
    (call.op = "project_tasks" /\ Done /\ Result.ok) =>
        Result.val = PreOrder(world.project_tasks[call.gid])

FlatTaskOrderWitness ==
    /\ call.op = "project_tasks" /\ Done /\ Result.ok
    /\ world.project_tasks[call.gid] = <<"t1", "t2">>
    /\ world.ps = 1
    /\ Gids(Result.val) = <<"t1", "t3", "t2">>

\* C10: the subtasks of a task t at level d are requested iff t's num_subtasks
\* is nonzero and (subtaskDepth is negative or d < subtaskDepth); with
\* subtaskDepth 0 no subtask request is issued, and with subtaskDepth N >= 0 no
\* task deeper than N levels appears in the result.
SubtaskGate ==
    (call.op = "project_tasks" /\ call.subtask_depth # None) =>
        /\ \A k \in 1..Len(http) :
              http[k].path.ep = "task_subtasks" =>
                  /\ HintNonzero(http[k].path.gid)
                  /\ http[k].level = TaskDepth(http[k].path.gid)
                  /\ SubtasksListed(http[k].level)
                  /\ call.subtask_depth # Some(0)
        /\ (Done /\ Result.ok) =>
              \A i \in 1..Len(Result.val) :
                  LET t == Result.val[i].gid
                  IN  /\ Fetched(t) <=> (HintNonzero(t) /\ SubtasksListed(TaskDepth(t)))
                      /\ call.subtask_depth[1] >= 0 => TaskDepth(t) <= call.subtask_depth[1]

SubtaskGateWitness ==
    /\ call.op = "project_tasks" /\ call.subtask_depth = Some(1)
    /\ Done /\ Result.ok
    /\ DOMAIN world.subtasks = {"t1", "t2", "t3"}
    /\ world.subtasks["t1"] = <<"t2">>
    /\ world.subtasks["t2"] = <<"t3">>
    /\ HintNonzero("t1") /\ HintNonzero("t2")
    /\ Gids(Result.val) = <<"t1", "t2">>
    /\ Fetched("t1") /\ ~Fetched("t2")

-----------------------------------------------------------------------------
(* Claims about the project_tasks tool, checked under SpecProjectTasks *)

\* The tasks of an Ok result: the content of the tool response, or the value
\* of get_tasks_recursive.
Tasks == IF call.via = "asana_get" THEN Result.val.content ELSE Result.val

\* The top-level tasks of a project as its task list returns them.
TopLevel(gid) ==
    [i \in DOMAIN world.project_tasks[gid] |->
        TaskResource(world.project_tasks[gid][i], world.hint)]

SubtaskRequests == {k \in 1..Len(http) : http[k].path.ep = "task_subtasks"}

\* C11 as stated: with subtask_depth absent no subtask list is requested and
\* the result holds only the top-level tasks, through asana_get and through
\* get_tasks_recursive called with None alike.
AbsentMeansNoExpansion ==
    (call.op = "tasks" /\ call.subtask_depth = None) =>
        /\ SubtaskRequests = {}
        /\ (Done /\ Result.ok /\ call.gid = Some("A")) => Tasks = TopLevel("A")

\* C11, amended: asana_get(project_tasks) with subtask_depth omitted passes
\* Some(0): no subtask list is requested and the result of a project is its
\* top-level tasks.  get_tasks_recursive called with subtask_depth = None
\* expands without a depth limit: the subtasks of every returned task with a
\* nonzero num_subtasks are requested, at every level.
SubtaskDepthAbsent ==
    (call.op = "tasks" /\ call.subtask_depth = None) =>
        /\ call.via = "asana_get" =>
              /\ SubtaskRequests = {}
              /\ (Done /\ Result.ok /\ call.gid = Some("A")) => Tasks = TopLevel("A")
        /\ (call.via = "get_tasks_recursive" /\ Done /\ Result.ok) =>
              \A i \in 1..Len(Tasks) :
                  Fetched(Tasks[i].gid) <=> HintNonzero(Tasks[i].gid)

SubtaskDepthAbsentWitness ==
    /\ call.op = "tasks" /\ call.subtask_depth = None
    /\ call.via = "get_tasks_recursive" /\ call.gid = Some("A")
    /\ Done /\ Result.ok
    /\ DOMAIN world.subtasks = {"t1", "t2", "t3"}
    /\ world.subtasks["t1"] = <<"t2">>
    /\ world.subtasks["t2"] = <<"t3">>
    /\ Gids(Tasks) = <<"t1", "t2", "t3">>
    /\ Cardinality(SubtaskRequests) = 2

\* The requests of the portfolio expansion.
PortfolioRequests == {k \in 1..Len(http) : http[k].path.ep \in {"portfolio", "portfolio_items"}}

\* The frames of get_tasks_recursive and of what it called.
InProbe == \E i \in 1..Len(stack) : stack[i].fn = "get_tasks_recursive"

\* What the invocation returns when get_tasks_recursive returns r.
Returned(r) ==
    IF call.via = "asana_get"
    THEN (IF r.ok THEN json_response(r.val)
          ELSE Err(error_to_mcp("Failed to get tasks", r.err)))
    ELSE r

\* C12 as stated: the probe has two outcomes only, so every invocation that
\* issued it went on to the project's task list or to the portfolio detail.
ProbeTwoOutcomes ==
    (call.op = "tasks" /\ http # <<>> /\ Done) =>
        /\ Len(http) >= 2
        /\ http[2].path \in {ProjectTasksPath(call.gid[1]), PortfolioPath(call.gid[1])}

\* C12, amended: get_tasks_recursive(id) first issues the minimal project
\* fetch, once.  If it succeeds the project path is followed and no portfolio
\* request is ever made; if it fails with NotFound the same id is expanded as a
\* portfolio; if it fails with any other error the call returns that error and
\* issues no further request.
TypeProbe ==
    (call.op = "tasks" /\ http # <<>>) =>
        LET gid == call.gid[1]
            probe == http[1].resp
        IN  /\ http[1].path = ProjectPath(gid)
            /\ http[1].query = OptFields("gid")
            /\ \A k \in 2..Len(http) : http[k].query # OptFields("gid")
            /\ probe.ok =>
                  /\ PortfolioRequests = {}
                  /\ IF Len(http) = 1 THEN InProbe
                     ELSE http[2].path = ProjectTasksPath(gid)
            /\ (~probe.ok /\ probe.err.kind = "NotFound") =>
                  IF Len(http) = 1 THEN InProbe
                  ELSE http[2].path = PortfolioPath(gid)
            /\ (~probe.ok /\ probe.err.kind # "NotFound") =>
                  /\ Len(http) = 1
                  /\ ~InProbe
                  /\ Done => Result = Returned(probe)

TypeProbeWitness ==
    /\ call.op = "tasks" /\ call.gid = Some("P") /\ call.depth = Some(1)
    /\ Done /\ Result.ok
    /\ http[1].path = ProjectPath("P")
    /\ http[1].resp.err.kind = "NotFound"
    /\ http[2].path = PortfolioPath("P")
    /\ Len(Tasks) = 2

RECURSIVE Sorted(_)
\* The numbers of a finite set in ascending order.
Sorted(S) ==
    IF S = {} THEN <<>>
    ELSE LET m == CHOOSE x \in S : \A y \in S : x <= y
         IN  <<m>> \o Sorted(S \ {m})

RECURSIVE Leaves(_, _)
\* The leaf projects of the portfolio tree expanded to the depth of the call,
\* depth-first in listing order.
Leaves(gid, d) ==
    IF gid \notin DOMAIN world.items \/ ~Listed(d) THEN <<>>
    ELSE LET refs == world.items[gid]
             acc[i \in 0..Len(refs)] ==
                 IF i = 0 THEN <<>>
                 ELSE IF refs[i].resource_type = "project" THEN Append(acc[i - 1], refs[i].gid)
                 ELSE IF refs[i].resource_type = "portfolio"
                 THEN acc[i - 1] \o Leaves(refs[i].gid, d + 1)
                 ELSE acc[i - 1]
         IN  acc[Len(refs)]

\* The requests that open the task list of a project (its first page), in the
\* order issued: one for every project the container path has processed.
Starts ==
    Sorted({k \in 1..Len(http) : /\ http[k].path.ep = "project_tasks"
                                 /\ OffsetParam(http[k].query) = None})

\* The last request made for the i-th processed project.
SegEnd(i) == IF i < Len(Starts) THEN Starts[i + 1] - 1 ELSE Len(http)

\* The tasks the i-th processed project contributes: none if a request for it
\* failed, else its flattened task list.
Contribution(i) ==
    IF ~http[SegEnd(i)].resp.ok THEN <<>>
    ELSE PreOrder(world.project_tasks[http[Starts[i]].path.gid])

\* The probe of the call failed with NotFound: the container path is taken.
ContainerPathTaken ==
    /\ call.op = "tasks"
    /\ http # <<>>
    /\ ~http[1].resp.ok
    /\ http[1].resp.err.kind = "NotFound"

\* C13: on the container path the leaf projects of the expanded tree are
\* processed depth-first in tree order and the flattened tasks of each are
\* appended in that order; a project whose task fetch fails with NotFound is
\* skipped and the projects after it are still processed; a failure of any
\* other kind, and any failure of the portfolio expansion, ends the call with
\* that error.
ContainerPath ==
    ContainerPathTaken =>
        LET leaves == Leaves(call.gid[1], 0)
            first  == IF Starts = <<>> THEN Len(http) + 1 ELSE Starts[1]
        IN  /\ Len(Starts) <= Len(leaves)
            /\ \A i \in 1..Len(Starts) : http[Starts[i]].path.gid = leaves[i]
            /\ \A k \in 2..Len(http) :
                  (/\ ~http[k].resp.ok
                   /\ (k < first \/ http[k].resp.err.kind # "NotFound")) =>
                      /\ k = Len(http)
                      /\ Done => Result = Returned(http[k].resp)
            /\ Done =>
                  (Result.ok <=>
                      \/ http[Len(http)].resp.ok
                      \/ (Len(http) >= first /\ http[Len(http)].resp.err.kind = "NotFound"))
            /\ (Done /\ Result.ok) =>
                  /\ Len(Starts) = Len(leaves)
                  /\ Tasks = Flatten([i \in 1..Len(Starts) |-> Contribution(i)])

ContainerPathWitness ==
    /\ ContainerPathTaken /\ call.gid = Some("P") /\ call.depth = Some(-1)
    /\ Done /\ Result.ok
    /\ world.items["P"] = <<PortfolioItem("Q"), PortfolioItem("A")>>
    /\ world.items["Q"] = <<PortfolioItem("B")>>
    /\ world.project_tasks["A"] = <<"t1">>
    /\ world.project_tasks["B"] = <<"t2">>
    /\ Len(Starts) = 2
    /\ http[Starts[1]].path.gid = "B"
    /\ http[Starts[1]].resp.err.kind = "NotFound"
    /\ Gids(Tasks) = <<"t1">>

-----------------------------------------------------------------------------
(* Claims about the workspace_favorites tool, checked under SpecFavorites *)

\* The response of an Ok result.
Favorites == Result.val.content

\* The favorite references of a resource type, as listed.
FavRefs(resource_type) == world.favorites[resource_type]

\* The requests for a list of favorites of a resource type.
FavoritesRequests(resource_type) ==
    {k \in 1..Len(http) : /\ http[k].path = FavoritesPath
                          /\ QueryParam(http[k].query, "resource_type") = Some(resource_type)}

\* The requests that resolve the project references, in the order issued:
\* the project details requested before the portfolios are listed.
ProjectResolutions ==
    Sorted({k \in 1..Len(http) :
               /\ http[k].path.ep = "project"
               /\ \A j \in FavoritesRequests("portfolio") : k < j})

\* The requests that open the resolution of a portfolio reference, in the
\* order issued: the detail requests of the roots.
PortfolioResolutions ==
    Sorted({k \in 1..Len(http) : http[k].path.ep = "portfolio" /\ http[k].level = 0})

\* The answer that ended the resolution of the i-th portfolio reference.
PortfolioOutcome(i) ==
    http[IF i < Len(PortfolioResolutions) THEN PortfolioResolutions[i + 1] - 1
         ELSE Len(http)].resp

\* The indices 1..n in order, and those of them that satisfy a test.
Indices(n, Test(_)) == SelectSeq([i \in 1..n |-> i], Test)

\* The call ended with the lists of references obtained.
FavoritesResolved == call.op = "favorites" /\ Done /\ Result.ok

\* C14: a failure while resolving a reference never ends the call: the call
\* fails only on the workspace or on a request for a list of favorites; every
\* reference is resolved and ends in exactly one of projects, portfolios and
\* errors, whose sizes add up to the number of references; an errors entry
\* carries the reference as listed and the text of the error.
FavoritesIsolation ==
    call.op = "favorites" =>
        /\ (Done /\ ~Result.ok) =>
              \/ http = <<>>
              \/ /\ http[Len(http)].path = FavoritesPath
                 /\ ~http[Len(http)].resp.ok
        /\ FavoritesResolved =>
              LET refs == Range(FavRefs("project")) \cup Range(FavRefs("portfolio"))
                  inProjects(item) ==
                      \E i \in 1..Len(Favorites.projects) :
                          /\ Favorites.projects[i].gid = item.gid
                          /\ item.resource_type = "project"
                  inPortfolios(item) ==
                      \E i \in 1..Len(Favorites.portfolios) :
                          /\ Favorites.portfolios[i].portfolio.gid = item.gid
                          /\ item.resource_type = "portfolio"
                  inErrors(item) ==
                      \E i \in 1..Len(Favorites.errors) : Favorites.errors[i].item = item
              IN  /\ Len(Favorites.projects) + Len(Favorites.portfolios)
                         + Len(Favorites.errors) = Cardinality(refs)
                  /\ Len(ProjectResolutions) = Len(FavRefs("project"))
                  /\ Len(PortfolioResolutions) = Len(FavRefs("portfolio"))
                  /\ \A item \in refs :
                        /\ inProjects(item) \/ inPortfolios(item) \/ inErrors(item)
                        /\ ~(inProjects(item) /\ inErrors(item))
                        /\ ~(inPortfolios(item) /\ inErrors(item))
                        /\ ~(inProjects(item) /\ inPortfolios(item))
                  /\ \A i \in 1..Len(Favorites.errors) :
                        /\ Favorites.errors[i].item \in refs
                        /\ \E k \in 1..Len(http) :
                              /\ ~http[k].resp.ok
                              /\ http[k].path # FavoritesPath
                              /\ Favorites.errors[i].error = ErrorDisplay(http[k].resp.err)
                  /\ \A k \in 1..Len(http) :
                        (~http[k].resp.ok /\ http[k].path # FavoritesPath) =>
                            \E i \in 1..Len(Favorites.errors) :
                                Favorites.errors[i].error = ErrorDisplay(http[k].resp.err)

FavoritesIsolationWitness ==
    /\ FavoritesResolved
    /\ Gids(FavRefs("project")) = <<"A", "B">>
    /\ Gids(FavRefs("portfolio")) = <<"P">>
    /\ call.depth = Some(1)
    /\ Gids(Favorites.projects) = <<"A">>
    /\ Len(Favorites.portfolios) = 1
    /\ Len(Favorites.errors) = 1
    /\ Favorites.errors[1].item = FavoriteItem("B", "project")
    /\ Favorites.errors[1].error = "API error: message of request 3"

\* C15: the resolved projects, the resolved portfolios and the failures each
\* keep the order of the references as listed (the projects' list, then the
\* portfolios' list): projects are the project references whose request
\* succeeded, portfolios the portfolio references whose expansion succeeded,
\* errors the failed project references followed by the failed portfolio
\* references, each in listing order.
FavoritesOrder ==
    FavoritesResolved =>
        LET pr == FavRefs("project")
            pf == FavRefs("portfolio")
            prOk == Indices(Len(pr), LAMBDA i : http[ProjectResolutions[i]].resp.ok)
            prErr == Indices(Len(pr), LAMBDA i : ~http[ProjectResolutions[i]].resp.ok)
            pfOk == Indices(Len(pf), LAMBDA i : PortfolioOutcome(i).ok)
            pfErr == Indices(Len(pf), LAMBDA i : ~PortfolioOutcome(i).ok)
        IN  /\ Favorites.projects =
                  [j \in DOMAIN prOk |-> http[ProjectResolutions[prOk[j]]].resp.val]
            /\ Gids(Favorites.projects) = [j \in DOMAIN prOk |-> pr[prOk[j]].gid]
            /\ [j \in DOMAIN Favorites.portfolios |-> Favorites.portfolios[j].portfolio.gid]
                  = [j \in DOMAIN pfOk |-> pf[pfOk[j]].gid]
            /\ Favorites.errors =
                  [j \in DOMAIN prErr |->
                      FavoriteError(pr[prErr[j]], http[ProjectResolutions[prErr[j]]].resp.err)]
                  \o [j \in DOMAIN pfErr |->
                         FavoriteError(pf[pfErr[j]], PortfolioOutcome(pfErr[j]).err)]

FavoritesOrderWitness ==
    /\ FavoritesResolved
    /\ Gids(FavRefs("project")) = <<"B", "C", "A">>
    /\ Gids(Favorites.projects) = <<"B", "A">>
    /\ Len(Favorites.errors) = 1
    /\ Favorites.errors[1].item.gid = "C"

-----------------------------------------------------------------------------
(* AsanaClient::from_env, AsanaClient::new, AsanaServer::new *)

\* An access token with a character a header value cannot hold.
BadToken == "bad\ntoken"

\* std::env::var(name): Err when the variable is not set
EnvVar(env, name) == env[name]

\* HeaderValue::from_str(&format!("Bearer {}", token)): Err on an invalid character
HeaderValue(token) ==
    IF token = BadToken THEN Err([kind |-> "InvalidToken"])
    ELSE Ok("Bearer " \o token)

\* AsanaClient::new(token): the token goes into the default headers unchecked;
\* built is whether reqwest::Client::builder().build() succeeds
NewClient(token, built) ==
    LET auth_value == HeaderValue(token)
    IN  IF ~auth_value.ok THEN auth_value
        ELSE IF ~built THEN Err([kind |-> "Http", message |-> "builder error"])
        ELSE Ok([authorization |-> auth_value.val,
                 base_url |-> "https://app.asana.com/api/1.0"])

FromEnvUnchecked(env, built) ==
    LET token == EnvVar(env, "ASANA_TOKEN")
    IN  IF token = None THEN Err([kind |-> "MissingToken"])
        ELSE NewClient(token[1], built)

\* AsanaClient::from_env(): MissingToken when ASANA_TOKEN is not set or is empty
FromEnv(env, built) ==
    LET token == EnvVar(env, "ASANA_TOKEN")
    IN  IF token = None THEN Err([kind |-> "MissingToken"])
        ELSE IF token[1] = "" THEN Err([kind |-> "MissingToken"])
        ELSE NewClient(token[1], built)

\* AsanaServer::new(): let client = AsanaClient::from_env()?; the default
\* workspace is read from the environment
NewServer(env, built) ==
    LET client == FromEnv(env, built)
    IN  IF ~client.ok THEN client
        ELSE Ok([client |-> client.val,
                 default_workspace_gid |-> EnvVar(env, "ASANA_DEFAULT_WORKSPACE")])

-----------------------------------------------------------------------------
(* AsanaClient::get .. delete_with_body, handle_response,                  *)
(* handle_empty_response, error_from_response, extract_error_message       *)

Methods == {"get", "get_list", "post", "put", "post_empty", "delete", "delete_with_body"}

\* What a method decodes a 2xx response into: DataWrapper<T>, ListWrapper<T>,
\* or nothing (handle_empty_response).
Expects(method) ==
    CASE method \in {"get", "post", "put"} -> "DataWrapper"
      [] method = "get_list" -> "ListWrapper"
      [] OTHER -> "empty"

IsSuccessBelow400(status) == 200 <= status /\ status < 400

\* StatusCode::is_success: 200..=299
IsSuccess(status) == 200 <= status /\ status < 300

\* StatusCode::canonical_reason
CanonicalReason(status) ==
    CASE status = 200 -> Some("OK")
      [] status = 201 -> Some("Created")
      [] status = 204 -> Some("No Content")
      [] status = 304 -> Some("Not Modified")
      [] status = 400 -> Some("Bad Request")
      [] status = 401 -> Some("Unauthorized")
      [] status = 403 -> Some("Forbidden")
      [] status = 404 -> Some("Not Found")
      [] status = 429 -> Some("Too Many Requests")
      [] status = 500 -> Some("Internal Server Error")
      [] OTHER -> None

\* The errors member of a body: absent, not a list, or a list of entries.
NoErrors == [present |-> FALSE, list |-> FALSE, entries |-> <<>>]

\* A body that is not JSON, the empty text included.
NotJson == [json |-> FALSE, data |-> "absent", next_page |-> "absent", errors |-> NoErrors]

\* An entry of an errors list is well-formed when it is an object with a
\* string message.
WellFormed(entry) == entry.message # None

ExtractFirstEntry(body) ==
    IF /\ body.json
       /\ body.errors.present
       /\ body.errors.list
       /\ body.errors.entries # <<>>
       /\ WellFormed(body.errors.entries[1])
    THEN Some(body.errors.entries[1].message[1])
    ELSE None

\* serde_json::from_str::<ErrorResponse>(body).ok().and_then(|r| r.errors.into_iter().next()).map(|e| e.message):
\* the body deserializes when it is an object whose errors is a list of
\* objects with a string message, every one of them
extract_error_message(body) ==
    IF /\ body.json
       /\ body.errors.present
       /\ body.errors.list
       /\ \A i \in 1..Len(body.errors.entries) : WellFormed(body.errors.entries[i])
    THEN (IF body.errors.entries = <<>> THEN None
          ELSE Some(body.errors.entries[1].message[1]))
    ELSE None

\* serde_json::from_str::<DataWrapper<T>>(&body) / ::<ListWrapper<T>>(&body)
FromStr(expects, body) ==
    IF ~body.json THEN Err([kind |-> "Parse", message |-> "expected value"])
    ELSE IF expects = "DataWrapper"
    THEN (IF body.data = "object" THEN Ok([data |-> body.data])
          ELSE Err([kind |-> "Parse", message |-> "data"]))
    ELSE IF body.data # "list" THEN Err([kind |-> "Parse", message |-> "data"])
    ELSE IF body.next_page = "malformed"
    THEN Err([kind |-> "Parse", message |-> "next_page"])
    ELSE Ok([data |-> body.data,
             next_page |-> IF body.next_page = "object" THEN Some([offset |-> "cursor"])
                           ELSE None])

\* The body of a response that was not read to its end is the empty text:
\* response.text().await.unwrap_or_default()
UnwrapOrDefault(response) ==
    IF response.readable THEN response.body
    ELSE NotJson

\* error_from_response: NotFound for 404, Api for every other status, with the
\* extracted message or the fallback
error_from_response(response) ==
    LET body == UnwrapOrDefault(response)
        message == extract_error_message(body)
    IN  IF response.status = 404
        THEN [kind |-> "NotFound", message |-> UnwrapOr(message, "resource not found")]
        ELSE [kind |-> "Api",
              message |-> UnwrapOr(message,
                                   "HTTP " \o ToString(response.status) \o " "
                                       \o UnwrapOr(CanonicalReason(response.status), ""))]

\* handle_response::<W>(response)
handle_response(expects, response) ==
    IF IsSuccess(response.status)
    THEN (IF ~response.readable THEN Err([kind |-> "Http", message |-> "body"])
          ELSE FromStr(expects, response.body))
    ELSE Err(error_from_response(response))

\* handle_empty_response(response)
handle_empty_response(response) ==
    IF IsSuccess(response.status) THEN Ok("unit")
    ELSE Err(error_from_response(response))

\* What a method returns for a response: .map(|wrapper| wrapper.data) for the
\* single-object methods.
MethodResult(method, response) ==
    CASE Expects(method) = "DataWrapper" ->
            LET r == handle_response("DataWrapper", response)
            IN  IF r.ok THEN Ok(r.val.data) ELSE r
      [] Expects(method) = "ListWrapper" -> handle_response("ListWrapper", response)
      [] OTHER -> handle_empty_response(response)

-----------------------------------------------------------------------------
(* One client: constructed, then one request through one method *)

\* The longest errors list of a body.
MaxErrors == 2

\* The access token the service accepts.
GoodToken == "tok"

ErrorEntries == {[message |-> Some("m1")], [message |-> Some("m2")], [message |-> None]}

ErrorsMembers ==
    {NoErrors, [present |-> TRUE, list |-> FALSE, entries |-> <<>>]}
        \cup {[present |-> TRUE, list |-> TRUE, entries |-> e] :
                  e \in UNION {[1..n -> ErrorEntries] : n \in 0..MaxErrors}}

Bodies ==
    {NotJson} \cup
    [json : {TRUE}, data : {"absent", "object", "list"},
     next_page : {"absent", "object", "malformed"}, errors : ErrorsMembers]

Statuses == {200, 204, 304, 401, 404, 500, 599}

\* The responses of the service: a status and a body, which arrives whole or
\* breaks off while it is read.
Responses ==
    [status : Statuses, readable : {TRUE}, body : Bodies]
        \cup [status : Statuses, readable : {FALSE},
              body : {b \in Bodies : b.json /\ b.data = "object" /\ b.next_page = "absent"}]

\* The service rejects a request that does not carry its token.
Unauthorized ==
    [status |-> 401, readable |-> TRUE,
     body |-> [json |-> TRUE, data |-> "absent", next_page |-> "absent",
               errors |-> [present |-> TRUE, list |-> TRUE,
                           entries |-> <<[message |-> Some("Not Authorized")]>>]]]

Answer(client, response) ==
    IF client.authorization = "Bearer " \o GoodToken THEN response ELSE Unauthorized

Entrances == {"AsanaServer::new", "AsanaClient::from_env", "AsanaClient::new"}

Environments ==
    [ASANA_TOKEN : {None, Some(""), Some(GoodToken), Some(BadToken)},
     ASANA_DEFAULT_WORKSPACE : {None, Some(""), Some("W")}]

PlainResponse ==
    [status |-> 200, readable |-> TRUE,
     body |-> [json |-> TRUE, data |-> "object", next_page |-> "absent", errors |-> NoErrors]]

\* Every construction with one plain request, and every request of a client
\* constructed with the token of the service.
ClientRuns ==
    {<<[env |-> env, response |-> PlainResponse, sent |-> TRUE],
       [op |-> "client", entry |-> entry, token |-> token, method |-> "get"]>> :
         env \in Environments, entry \in Entrances, token \in {"", GoodToken, BadToken}}
    \cup
    {<<[env |-> [ASANA_TOKEN |-> Some(GoodToken), ASANA_DEFAULT_WORKSPACE |-> None],
        response |-> response, sent |-> sent],
       [op |-> "client", entry |-> "AsanaClient::new", token |-> GoodToken, method |-> method]>> :
         response \in Responses, sent \in BOOLEAN, method \in Methods}

MainFrame == [fn |-> "main", pc |-> "construct"]

\* main: the server or the client is constructed; an error ends the program
\* before a request
ClientConstruct ==
    /\ Running("main")
    /\ \E built \in BOOLEAN :
          LET r == CASE call.entry = "AsanaServer::new" -> NewServer(world.env, built)
                     [] call.entry = "AsanaClient::from_env" -> FromEnv(world.env, built)
                     [] OTHER -> NewClient(call.token, built)
              client == IF call.entry = "AsanaServer::new" THEN r.val.client ELSE r.val
          IN  IF r.ok
              THEN /\ stack' = <<[fn |-> call.method, client |-> client, pc |-> "send"]>>
                   /\ ret' = ret
              ELSE /\ stack' = <<>>
                   /\ ret' = Some(r)
    /\ UNCHANGED <<world, call, http>>

\* self.http.<method>(url).send().await?: the request goes out; a failure of
\* the transport is an Http error
ClientSend ==
    /\ stack # <<>>
    /\ Top.fn \in Methods
    /\ Top.pc = "send"
    /\ IF world.sent
       THEN /\ stack' = SetTop([Top EXCEPT !.pc = "handle"])
            /\ http' = Append(http, [method |-> Top.fn,
                                      response |-> Some(Answer(Top.client, world.response))])
            /\ ret' = ret
       ELSE /\ stack' = <<>>
            /\ http' = Append(http, [method |-> Top.fn, response |-> None])
            /\ ret' = Some(Err([kind |-> "Http", message |-> "send"]))
    /\ UNCHANGED <<world, call>>

\* Self::handle_response(response).await / Self::handle_empty_response(response).await
ClientHandle ==
    /\ stack # <<>>
    /\ Top.fn \in Methods
    /\ Top.pc = "handle"
    /\ stack' = <<>>
    /\ ret' = Some(MethodResult(Top.fn, http[Len(http)].response[1]))
    /\ UNCHANGED <<world, call, http>>

InitClient ==
    /\ \E run \in ClientRuns :
          /\ world = run[1]
          /\ call = run[2]
    /\ stack = <<MainFrame>>
    /\ http = <<>>
    /\ ret = None

NextClient ==
    \/ ClientConstruct
    \/ ClientSend
    \/ ClientHandle

SpecClient == InitClient /\ [][NextClient]_vars

-----------------------------------------------------------------------------
(* Claims about the client, checked under SpecClient *)

\* The response the request of the run was answered with, and what the
\* method made of it.
Received == http # <<>> /\ http[1].response # None

Response == http[1].response[1]

Outcome == ret[1]

\* Whether a body matches the envelope a method decodes.
MatchesEnvelope(method, body) ==
    CASE method \in {"get", "post", "put"} -> body.json /\ body.data = "object"
      [] method = "get_list" ->
            body.json /\ body.data = "list" /\ body.next_page # "malformed"
      [] OTHER -> TRUE

\* The messages a body offers.
Offered(body) ==
    {body.errors.entries[i].message[1] :
        i \in {j \in 1..Len(body.errors.entries) : WellFormed(body.errors.entries[j])}}

FirstEntryPreferred ==
    (Done /\ Received /\ Response.readable /\ Response.status \notin 200..299) =>
        LET errors == Response.body.errors
        IN  (/\ Response.body.json
             /\ errors.list
             /\ errors.entries # <<>>
             /\ WellFormed(errors.entries[1]))
                => Outcome.err.message = errors.entries[1].message[1]

\* C17: the message of a non-2xx response is the first entry's message exactly
\* when the body is JSON with an errors list that is not empty and whose
\* entries are well-formed, every one of them; in every other case (not JSON,
\* no errors list, an empty list, a malformed entry at any position) it is the
\* fallback text.
ErrorMessageExtraction ==
    (Done /\ Received /\ Response.readable /\ Response.status \notin 200..299) =>
        LET errors == Response.body.errors
            fallback == IF Response.status = 404 THEN "resource not found"
                        ELSE "HTTP " \o ToString(Response.status) \o " "
                                 \o UnwrapOr(CanonicalReason(Response.status), "")
        IN  IF /\ Response.body.json
               /\ errors.list
               /\ errors.entries # <<>>
               /\ \A i \in 1..Len(errors.entries) : WellFormed(errors.entries[i])
            THEN Outcome.err.message = errors.entries[1].message[1]
            ELSE Outcome.err.message = fallback

\* A 500 whose errors list holds a well-formed entry and then a malformed one:
\* the fallback text.
ErrorMessageExtractionWitness ==
    /\ Done
    /\ Received
    /\ Response.status = 500
    /\ Response.readable
    /\ Response.body.json
    /\ Response.body.errors.list
    /\ Response.body.errors.entries = <<[message |-> Some("m1")], [message |-> None]>>
    /\ Outcome = Err([kind |-> "Api", message |-> "HTTP 500 Internal Server Error"])

\* Whether the run was given no credential or an empty one.
NoCredential ==
    IF call.entry = "AsanaClient::new" THEN call.token = ""
    ELSE world.env.ASANA_TOKEN \in {None, Some("")}

\* C20 as stated: with a missing or an empty credential the construction of
\* the client or the server fails with MissingToken and no request is issued.
CredentialFatal ==
    NoCredential =>
        /\ http = <<>>
        /\ Done => Outcome = Err([kind |-> "MissingToken"])

\* C20: AsanaClient::from_env and AsanaServer::new fail with MissingToken and
\* issue no request when ASANA_TOKEN is not set or is empty; AsanaClient::new
\* does not examine its token: with the empty token it constructs a client
\* whenever the HTTP client can be built, and the requests of that client are
\* rejected one by one.
CredentialHandling ==
    /\ (call.entry # "AsanaClient::new" /\ NoCredential) =>
           /\ http = <<>>
           /\ Done => Outcome = Err([kind |-> "MissingToken"])
    /\ (call.entry = "AsanaClient::new" /\ NoCredential /\ Done) =>
           \/ http = <<>> /\ Outcome = Err([kind |-> "Http", message |-> "builder error"])
           \/ /\ Len(http) = 1
              /\ Outcome = Err([kind |-> "Api", message |-> "Not Authorized"])

\* AsanaClient::new with the empty token: the client is constructed and its
\* request is rejected by the service.
CredentialHandlingWitness ==
    /\ Done
    /\ call.entry = "AsanaClient::new"
    /\ call.token = ""
    /\ Len(http) = 1
    /\ Outcome = Err([kind |-> "Api", message |-> "Not Authorized"])

-----------------------------------------------------------------------------
(* Claims about failures and the order of requests *)

\* The failed requests of the invocation.
Failed == {k \in 1..Len(http) : ~http[k].resp.ok}

\* The places where a failure is followed by further requests: the NotFound
\* of the type probe, a NotFound among the requests for a project of the
\* container path, and a failure among the requests that resolve a favorite.
Tolerated(k) ==
    CASE call.op = "tasks" ->
            /\ http[k].resp.err.kind = "NotFound"
            /\ \/ k = 1
               \/ ContainerPathTaken /\ Starts # <<>> /\ k >= Starts[1]
      [] call.op = "favorites" -> http[k].path # FavoritesPath
      [] OTHER -> FALSE

\* What the invocation returns when its traversal returns the error r.
Propagated(r) ==
    CASE call.op = "tasks" -> Returned(r)
      [] call.op = "favorites" ->
            Err(error_to_mcp(IF QueryParam(http[Len(http)].query, "resource_type") = Some("project")
                             THEN "Failed to get favorite projects"
                             ELSE "Failed to get favorite portfolios", r.err))
      [] OTHER -> r

\* C18: a failed request outside the tolerated places (the resolution of a
\* favorite, the NotFound of the type probe, a NotFound for a project of the
\* container path) is the last request of the invocation, which returns the
\* error of that request, kind and message as received; being the last, it is
\* not issued again and no other request follows it.
NoRetries ==
    \A k \in Failed :
        ~Tolerated(k) =>
            /\ k = Len(http)
            /\ Done => Result = Propagated(http[k].resp)

\* The container path passes over a NotFound for one project, then a request
\* for the next project fails otherwise: that failure is the last request and
\* is what the call returns.
NoRetriesWitness ==
    /\ ContainerPathTaken
    /\ Done
    /\ Len(Starts) = 2
    /\ http[SegEnd(1)].resp.err.kind = "NotFound"
    /\ ~http[Len(http)].resp.ok
    /\ http[Len(http)].resp.err.kind = "Api"
    /\ Result = Returned(http[Len(http)].resp)
    /\ Failed = {1, SegEnd(1), Len(http)}

-----------------------------------------------------------------------------
(* The traversals together: the task expander, the favorites, the task tool *)

InitTraversals ==
    \/ InitProjectTasks
    \/ InitFavorites
    \/ InitTaskContext

NextTraversals ==
    \/ GetAllSend
    \/ GetAllStep
    \/ AsanaGetProjectTasks
    \/ AsanaGetProjectTasksReturn
    \/ TasksRecursiveProbeSend
    \/ TasksRecursiveProbe
    \/ TasksRecursiveReturn
    \/ TasksFromPortfolioExpand
    \/ TasksFromPortfolioCollect
    \/ TasksFromPortfolioProject
    \/ TasksFromPortfolioTasks
    \/ TasksFromPortfolioReturn
    \/ TasksFromProjectList
    \/ TasksFromProjectExpand
    \/ TasksFromProjectReturn
    \/ ExpandSubtasksPush
    \/ ExpandSubtasksFetch
    \/ ExpandSubtasksRecurse
    \/ ExpandSubtasksNested
    \/ ExpandSubtasksReturn
    \/ FetchPortfolioDetailSend
    \/ FetchPortfolioDetail
    \/ FetchPortfolioItems
    \/ FetchPortfolioProjectSend
    \/ FetchPortfolioProject
    \/ FetchPortfolioRecurse
    \/ FetchPortfolioNested
    \/ FetchPortfolioSkip
    \/ FetchPortfolioReturn
    \/ FavoritesStart
    \/ FavoritesProjects
    \/ FavoritesProjectSend
    \/ FavoritesProject
    \/ FavoritesPortfoliosList
    \/ FavoritesPortfolios
    \/ FavoritesPortfolio
    \/ FavoritesPortfolioResolved
    \/ FavoritesReturn
    \/ AsanaGetTask
    \/ AsanaGetTaskReturn
    \/ TaskContextTaskSend
    \/ TaskContextTask
    \/ TaskContextSubtasks
    \/ TaskContextSubtasksReturn
    \/ TaskContextDependencies
    \/ TaskContextDependenciesReturn
    \/ TaskContextDependentsReturn
    \/ TaskContextComments
    \/ TaskContextCommentsReturn

SpecTraversals == InitTraversals /\ [][NextTraversals]_vars

\* The requests in flight: issued, not yet answered.
InFlight == {i \in 1..Len(stack) : stack[i].fn = "send"}

\* C19: within one invocation of a traversal (get_all, get_portfolio_recursive,
\* get_tasks_recursive, get_task_with_context, workspace_favorites) at most one
\* request is in flight at any time, and while it is in flight the frame that
\* issued it, and with it the whole invocation, is suspended: the next request
\* is issued only after the response has been received.
SequentialExecution ==
    /\ Cardinality(InFlight) <= 1
    /\ \A i \in InFlight : i = Len(stack)

\* The favorites, five answers received and the sixth request in flight: the
\* detail of a portfolio nested in a favorite portfolio.
SequentialExecutionWitness ==
    /\ call.op = "favorites"
    /\ Len(http) = 5
    /\ stack # <<>>
    /\ InFlight = {Len(stack)}
    /\ Caller.fn = "fetch_portfolio"
    /\ Caller.current_depth = 1

-----------------------------------------------------------------------------
(* Claims about the helpers and Resource, checked under SpecHelpers *)

\* The helper fn was applied and has returned.
Applied(fn) == call.op = "helper" /\ call.fn = fn /\ Done

\* C21: error_to_mcp gives INVALID_PARAMS for NotFound, MissingToken and
\* InvalidToken and INTERNAL_ERROR for Api, Http and Parse, whatever the error
\* carries; the message is the context, then ": ", then a text of the kind,
\* which for NotFound and Api is exactly the message the error carries.
ErrorWrapping ==
    Applied("error_to_mcp") =>
        LET kind == call.error.kind
            carried == "message of request " \o ToString(call.error.at)
            rest == CASE kind \in {"NotFound", "Api"} -> carried
                      [] kind = "MissingToken" -> "ASANA_TOKEN environment variable not set"
                      [] kind = "InvalidToken" -> "invalid token format"
                      [] kind = "Http" -> "HTTP error - " \o carried
                      [] kind = "Parse" -> "failed to parse response - " \o carried
        IN  /\ Result.code = IF kind \in {"NotFound", "MissingToken", "InvalidToken"}
                             THEN "INVALID_PARAMS" ELSE "INTERNAL_ERROR"
            /\ Result.message = call.context \o ": " \o rest

\* An Api error wrapped for the search of tasks.
ErrorWrappingWitness ==
    /\ Applied("error_to_mcp")
    /\ call.error = [kind |-> "Api", at |-> 2]
    /\ call.context = "Failed to search tasks"
    /\ Result = [code |-> "INTERNAL_ERROR",
                 message |-> "Failed to search tasks: message of request 2"]

Emitted(encoding, key) == {i \in 1..Len(encoding) : encoding[i][1] = key}

\* C25: a payload without gid fails to decode; a payload that decodes is
\* encoded with every key of the payload under its value, each key once, gid
\* among them once; the decoded fields never hold gid.
RoundTrip ==
    /\ (Running("Resource") /\ Top.pc = "decoded") =>
           /\ "gid" \notin DOMAIN Top.resource.fields
           /\ Top.resource.gid = call.payload["gid"].v
    /\ Applied("Resource") =>
           /\ "gid" \notin DOMAIN call.payload => ~Result.ok
           /\ Result.ok =>
                 /\ \A k \in DOMAIN call.payload :
                       \E i \in Emitted(Result.val, k) :
                           Result.val[i][2] = call.payload[k]
                 /\ \A i \in 1..Len(Result.val) :
                       Cardinality(Emitted(Result.val, Result.val[i][1])) = 1
                 /\ Cardinality(Emitted(Result.val, "gid")) = 1

\* A payload of gid, name and a key unknown to the consumer, decoded and encoded.
RoundTripWitness ==
    /\ Applied("Resource")
    /\ Result.ok
    /\ DOMAIN call.payload = {"gid", "name", "custom_field"}
    /\ call.payload["custom_field"] = [t |-> "number", v |-> "7"]
    /\ \E i \in 1..Len(Result.val) :
          Result.val[i] = <<"custom_field", [t |-> "number", v |-> "7"]>>
    /\ Len(Result.val) = 4

-----------------------------------------------------------------------------
(* Claims about the required parameters of the tools, checked under SpecTools *)

\* The workspace of the parameters is absent or empty and the server has no
\* default workspace.
NoWorkspace(provided) ==
    provided \in {None, Some("")} /\ call.default_workspace_gid = None

\* A parameter the call requires is missing: the gid of asana_get (absent or
\* empty), the workspace, the task_gid of a subtask, the name of a portfolio or
\* of a section update, the item of a link, the query of a resource search.
MissingParameter ==
    LET p == call.p
    IN  CASE call.tool = "asana_get" /\ p.resource_type = "project" ->
                p.gid \in {None, Some("")}
          [] call.tool = "asana_get" /\ p.resource_type = "workspace_tags" ->
                NoWorkspace(p.gid)
          [] call.tool = "asana_create" /\ p.resource_type = "subtask" ->
                p.task_gid = None
          [] call.tool = "asana_create" /\ p.resource_type = "portfolio" ->
                NoWorkspace(p.workspace_gid) \/ p.name = None
          [] call.tool = "asana_update" -> p.name = None
          [] call.tool = "asana_link" /\ p.relationship = "task_project" ->
                p.item_gid = None
          [] call.tool = "asana_link" /\ p.relationship = "task_dependency" ->
                p.item_gid = None /\ p.item_gids \in {None, Some(<<>>)}
          [] call.tool = "asana_link" /\ p.relationship = "task_parent" -> FALSE
          [] call.tool = "asana_resource_search" ->
                NoWorkspace(p.workspace_gid) \/ p.query = None

\* The workspace a request names: in its path, or in the data of its body.
RequestWorkspace(path, query) ==
    CASE path.ep \in {"workspace_tags", "typeahead"} -> Some(path.gid)
      [] path.ep = "create_portfolio" -> QueryParam(query, "workspace")
      [] OTHER -> None

\* The workspace the parameters give, if it is not empty.
ProvidedWorkspace ==
    LET provided == CASE call.tool = "asana_get" -> call.p.gid
                      [] call.tool \in {"asana_create", "asana_resource_search"} ->
                            call.p.workspace_gid
                      [] OTHER -> None
    IN  IF provided \in {None, Some("")} THEN None ELSE provided

-----------------------------------------------------------------------------
(* Claims about get_task_with_context, checked under SpecTaskContext *)

\* The flag as get_task_with_context receives it: the tool passes true for a
\* flag the parameters leave out.
Included(flag) == flag \in {None, Some(TRUE)}

\* The endpoints in the order get_task_with_context visits them.
EndpointRank(ep) ==
    CASE ep = "task" -> 1
      [] ep = "task_subtasks" -> 2
      [] ep = "task_dependencies" -> 3
      [] ep = "task_dependents" -> 4
      [] ep = "task_stories" -> 5

\* The requests made so far to an endpoint.
Requested(ep) == {i \in 1..Len(http) : http[i].path.ep = ep}

\* The TaskWithContext a successful call returned.
Context == IF call.via = "asana_get" THEN Result.val.content ELSE Result.val

\* C24: the first request is the task detail; the subtasks are requested iff
\* include_subtasks, the dependencies and then the dependents iff
\* include_dependencies, the stories iff include_comments, in this order; a
\* disabled flag leaves its list empty and its endpoint without a request; the
\* comments are the stories of subtype comment_added, in the order listed.
TaskContextFlags ==
    call.op = "task" =>
        /\ http # <<>> => http[1].path = [ep |-> "task", gid |-> call.gid[1]]
        /\ \A i, j \in 1..Len(http) :
              i < j => /\ EndpointRank(http[i].path.ep) <= EndpointRank(http[j].path.ep)
                       /\ http[j].path.ep # "task"
        /\ ~Included(call.include_subtasks) => Requested("task_subtasks") = {}
        /\ ~Included(call.include_dependencies) =>
              Requested("task_dependencies") \cup Requested("task_dependents") = {}
        /\ ~Included(call.include_comments) => Requested("task_stories") = {}
        /\ (Done /\ Result.ok) =>
              /\ Included(call.include_subtasks) <=> Requested("task_subtasks") # {}
              /\ Included(call.include_dependencies) <=> Requested("task_dependencies") # {}
              /\ Included(call.include_dependencies) <=> Requested("task_dependents") # {}
              /\ Included(call.include_comments) <=> Requested("task_stories") # {}
              /\ ~Included(call.include_subtasks) => Context.subtasks = <<>>
              /\ ~Included(call.include_dependencies) =>
                    Context.dependencies = <<>> /\ Context.dependents = <<>>
              /\ Context.comments =
                    IF Included(call.include_comments)
                    THEN SelectSeq(world.stories[call.gid[1]],
                                   LAMBDA story :
                                       story.resource_subtype = Some("comment_added"))
                    ELSE <<>>

\* Comments asked for and subtasks not: of an assignment and a comment the
\* comment alone is returned, and the subtasks of the task are never listed.
TaskContextFlagsWitness ==
    /\ call.op = "task"
    /\ Done
    /\ Result.ok
    /\ call.include_subtasks = Some(FALSE)
    /\ call.include_comments = Some(TRUE)
    /\ world.subtasks["t1"] # <<>>
    /\ Len(world.stories["t1"]) = 2
    /\ world.stories["t1"][1].resource_subtype = Some("assigned")
    /\ Context.comments = <<Story(2, Some("comment_added"))>>
    /\ Context.subtasks = <<>>
    /\ Requested("task_subtasks") = {}

-----------------------------------------------------------------------------
(* Claims about a portfolio graph with a cycle, checked under SpecCycleFair *)

\* The longest item list of the graph.
Branching ==
    LET L == {Len(world.items[p]) : p \in DOMAIN world.items}
    IN  CHOOSE m \in L : \A x \in L : x <= m

RECURSIVE Visits(_)
\* The portfolios an expansion to depth n reaches at most, level by level.
Visits(n) == IF n = 0 THEN 1 ELSE Branching ^ n + Visits(n - 1)

\* The requests of an expansion to depth n at most: for every portfolio its
\* detail, the pages of its items and the details of its projects.
RequestBound(n) == Visits(n) * (1 + 2 * Branching)

\* The levels of the expansions in progress.
Nesting == {stack[i].current_depth : i \in {j \in 1..Len(stack) : stack[j].fn = "fetch_portfolio"}}

\* C26: on a graph with a cycle, get_portfolio_recursive with a finite depth
\* N >= 0 terminates, after a number of requests bounded by N, with a result
\* nested no deeper than N; with unlimited depth it never returns a result:
\* it returns the error of a request that fails, and as long as the service
\* answers it goes on, deeper than any level (the expansion is only ever at
\* rest at the deepest level the model follows it to).
CyclicExpansion ==
    /\ [](call.op = "cycle" /\ ~Unlimited =>
             /\ \A d \in Nesting : d <= DepthArg
             /\ Len(http) <= RequestBound(DepthArg)
             /\ (Done /\ Result.ok) => NestDepth(Result.val) <= DepthArg)
    /\ (call.op = "cycle" /\ ~Unlimited) ~> Done
    /\ [](call.op = "cycle" /\ Unlimited =>
             /\ Done => ~Result.ok /\ ~http[Len(http)].resp.ok
             /\ (~Done /\ ~ENABLED NextPortfolio) => MaxNesting \in Nesting)

\* P lists itself and the depth is unlimited: every request answered, the
\* expansion of P is in progress at every level the model follows it to.
CyclicExpansionWitness ==
    /\ call.op = "cycle"
    /\ call.depth = Some(-1)
    /\ world.items["P"] = <<PortfolioItem("P")>>
    /\ \A k \in 1..Len(http) : http[k].resp.ok
    /\ Nesting = 0..MaxNesting
    /\ \A i \in 1..Len(stack) : stack[i].fn = "fetch_portfolio" => stack[i].gid = "P"

-----------------------------------------------------------------------------
(* Claims about the termination of get_all, checked under SpecPageCycleFair *)

\* The answer ends the listing: a failure, or a page without a cursor.
Final(r) == ~r.ok \/ r.val.next_page = None

\* C27: get_all has returned exactly when the last answer of the service was
\* a failure or a page with a null cursor; on an endpoint that ends it
\* terminates; on an endpoint that hands out a cursor with every page it has
\* no bound of its own and goes on requesting as long as the service answers
\* (it is only ever at rest, not returned, at the bound of the model).
PaginationTermination ==
    /\ [](call.op = "get_all_cycle" =>
             /\ Done <=> (http # <<>> /\ Final(http[Len(http)].resp))
             /\ (~Done /\ ~ENABLED NextPage) => Len(http) = MaxRequests)
    /\ (call.op = "get_all_cycle" /\ world.back = None) ~> Done
    /\ (call.op = "get_all_cycle" /\ world.back # None)
           ~> (Len(http) = MaxRequests \/ (Done /\ ~Result.ok))

\* One page that hands out the cursor of its own request: every request after
\* the first carries the same cursor, and the loop is still going.
PaginationTerminationWitness ==
    /\ call.op = "get_all_cycle"
    /\ world.pages = <<<<"a">>>>
    /\ world.back = Some(0)
    /\ Len(http) = MaxRequests
    /\ \A k \in 1..Len(http) : http[k].resp.ok
    /\ \A k \in 2..Len(http) : OffsetParam(http[k].query) = Some(Cursor(0))
    /\ Running("get_all")
    /\ Len(Top.all_items) = MaxRequests
    /\ Top.offset = Some(Cursor(0))

-----------------------------------------------------------------------------
(* Claims about NotFound on the container path, checked under SpecProjectTasks *)

\* The requests of the portfolio expansion of the container path: the details
\* of the portfolios, the pages of their items, the details of the leaf projects.
ExpansionRequests ==
    {k \in 2..Len(http) : http[k].path.ep \in {"portfolio", "portfolio_items", "project"}}

\* The requests made for the tasks of a project: its task list, the subtasks.
ProjectStepRequests ==
    {k \in 2..Len(http) : http[k].path.ep \in {"project_tasks", "task_subtasks"}}

NotFoundAt(k) == ~http[k].resp.ok /\ http[k].resp.err.kind = "NotFound"

\* C28: after the NotFound of the probe, a NotFound of a request of the
\* portfolio expansion (a portfolio detail, a page of items, the detail of a
\* leaf project) ends the call, which returns it; a NotFound among the
\* requests for the tasks of a project is never what the call returns; and an
\* id the service knows neither as a project nor as a portfolio yields the
\* NotFound of the portfolio detail, not an empty list.
NotFoundOnlyPerProject ==
    ContainerPathTaken =>
        /\ \A k \in ExpansionRequests :
              NotFoundAt(k) =>
                  /\ k = Len(http)
                  /\ InFlight = {}
                  /\ Done => Result = Returned(http[k].resp)
        /\ \A k \in ProjectStepRequests :
              (NotFoundAt(k) /\ Done) => (Result.ok \/ k < Len(http))
        /\ (/\ call.gid[1] \notin world.projects \cup DOMAIN world.items
            /\ Len(http) >= 2
            /\ http[2].resp = DetailAnswer(world, PortfolioPath(call.gid[1]), 2)) =>
              /\ Len(http) = 2
              /\ NotFoundAt(2)
              /\ Done => Result = Returned(http[2].resp)

\* The id Z is neither a project nor a portfolio: two requests, both answered
\* NotFound by the service, and the tool returns the second as an error.
NotFoundOnlyPerProjectWitness ==
    /\ ContainerPathTaken
    /\ call.gid = Some("Z")
    /\ call.via = "asana_get"
    /\ Done
    /\ Len(http) = 2
    /\ http[1].resp = DetailAnswer(world, ProjectPath("Z"), 1)
    /\ http[2].resp = DetailAnswer(world, PortfolioPath("Z"), 2)
    /\ Result = Err([code |-> "INVALID_PARAMS",
                     message |-> "Failed to get tasks: message of request 2"])

-----------------------------------------------------------------------------
(* Claims about the tasks of a project on the container path, checked under *)
(* SpecProjectTasks                                                        *)

RECURSIVE TaskTree(_)
\* The tasks of a listing and all the subtasks below them.
TaskTree(list) ==
    IF list = <<>> THEN {}
    ELSE {Head(list)} \cup TaskTree(world.subtasks[Head(list)]) \cup TaskTree(Tail(list))

\* The expansions of the project gid: the places it has among the processed
\* projects (a project listed under two portfolios is processed twice).
Expansions(gid) == {i \in 1..Len(Starts) : http[Starts[i]].path.gid = gid}

\* A request of the i-th expansion was answered NotFound.
Skipped(i) == \E k \in Starts[i]..SegEnd(i) : NotFoundAt(k)

\* The tasks fetched by the i-th expansion, whatever became of them.
FetchedBy(i) ==
    UNION {Range(Gids(http[k].resp.val.data)) :
              k \in {j \in Starts[i]..SegEnd(i) : http[j].resp.ok}}

\* The tasks a complete expansion of the project returns: its top-level tasks,
\* and their subtasks at every level when the subtask depth is not 0.
Complete(gid) ==
    IF call.via = "asana_get" THEN Range(world.project_tasks[gid])
    ELSE TaskTree(world.project_tasks[gid])

\* How often the task is in the result.
Occurrences(task) == Cardinality({j \in 1..Len(Tasks) : Tasks[j].gid = task})

-----------------------------------------------------------------------------
(* Claims about the depth of the container path, checked under SpecProjectTasks *)

\* The probe of the call succeeded: the project path is taken.
ProjectPathTaken == call.op = "tasks" /\ http # <<>> /\ http[1].resp.ok

\* The frames of the container path.
ContainerFrames ==
    {i \in 1..Len(stack) : stack[i].fn \in {"get_tasks_from_portfolio", "fetch_portfolio"}}

\* C30: on the project path the depth of the call has no effect: the requests
\* after the probe are those of the task list and the subtasks of the project
\* and the result is the flattened task tree, whatever the depth.  On the
\* container path with depth 0, given or omitted, the portfolio is expanded to
\* its root only: after the probe and the portfolio detail the call returns an
\* empty task list, and no task list of a project is requested.  With a
\* negative depth the items of every portfolio of the tree are listed.
ContainerDepth ==
    /\ ProjectPathTaken =>
          /\ ContainerFrames = {}
          /\ Len(http) >= 2 => http[2].path = ProjectTasksPath(call.gid[1])
          /\ \A k \in 2..Len(http) : http[k].path.ep \in {"project_tasks", "task_subtasks"}
          /\ (Done /\ Result.ok) => Tasks = PreOrder(world.project_tasks[call.gid[1]])
    /\ (ContainerPathTaken /\ call.depth \in {None, Some(0)}) =>
          /\ Len(http) <= 2
          /\ Len(http) = 2 => http[2].path = PortfolioPath(call.gid[1])
          /\ Done => Len(http) = 2
          /\ (Done /\ http[2].resp.ok) => Result = Returned(Ok(<<>>))
    /\ (ContainerPathTaken /\ call.depth # None /\ call.depth[1] < 0
            /\ Done /\ Result.ok) =>
          /\ Requests(PortfolioItemsPath(call.gid[1])) # {}
          /\ \A i \in 1..Len(world.items[call.gid[1]]) :
                world.items[call.gid[1]][i].resource_type = "portfolio" =>
                    Requests(PortfolioItemsPath(world.items[call.gid[1]][i].gid)) # {}

\* The tool called for P without a depth: P lists A and B, which hold tasks;
\* two requests, and the response is an empty list.
ContainerDepthWitness ==
    /\ ContainerPathTaken
    /\ call.via = "asana_get"
    /\ call.gid = Some("P")
    /\ call.depth = None
    /\ DOMAIN world.items = {"P", "Q"}
    /\ world.items["P"] = <<PortfolioItem("A"), PortfolioItem("B")>>
    /\ world.project_tasks["A"] # <<>>
    /\ world.project_tasks["B"] # <<>>
    /\ Done
    /\ Len(http) = 2
    /\ http[2].path = PortfolioPath("P")
    /\ Result = json_response(<<>>)

====
